---- MODULE Spec2Model ----
(***************************************************************************)
(* The run-submission pipeline of zenolink-web: the two POST handlers      *)
(* (app/api/runs/route.ts, and its variant with disease-association        *)
(* enrichment), the persisted "runs" store they query and insert into,     *)
(* and the external services they call.                                    *)
(*                                                                         *)
(* Strings are run-length sequences <<[c, n], ...>> of one-character       *)
(* strings (canonical: no empty run, no two adjacent runs of one           *)
(* character), so that a 1281-character sequence is one small value and    *)
(* trim/length/concatenation are computed, not assumed.  A nullable field  *)
(* is Null (<<>>) or Some(x) (<<x>>).                                      *)
(***************************************************************************)
EXTENDS Integers, Sequences, FiniteSets, TLC

\* ------------------------------------------------------------ bounds
MaxLigands == 2
MaxTargets == 2
MaxPages == 2

\* ------------------------------------------------- program constants
SEQUENCE_MAX_LENGTH == 1280
DEDUP_CHUNK_SIZE == 200
OPENTARGETS_PAGE_SIZE == 50

WARNING_SEQUENCE_TOO_LONG == "sequence_too_long"
WARNING_INVALID_SMILES == "invalid_smiles"
WARNING_SEQUENCE_MISSING == "sequence_missing"
WARNING_PREVIOUS_RESULT == "previous_result_available"

\* ------------------------------------------------------------ values
Null == <<>>
Some(x) == <<x>>
IsNull(v) == v = <<>>
Get(v) == v[1]

\* ----------------------------------------------------------- strings
Run(c, n) == [c |-> c, n |-> n]
EmptyStr == <<>>
Rep(c, n) == IF n = 0 THEN <<>> ELSE <<Run(c, n)>>

\* a + b
Cat(a, b) ==
  IF a = <<>> THEN b
  ELSE IF b = <<>> THEN a
  ELSE IF a[Len(a)].c = b[1].c
       THEN SubSeq(a, 1, Len(a) - 1)
              \o <<Run(b[1].c, a[Len(a)].n + b[1].n)>> \o Tail(b)
       ELSE a \o b

\* the string whose characters are chars, a sequence of one-character strings
RECURSIVE Lit(_)
Lit(chars) ==
  IF chars = <<>> THEN <<>> ELSE Cat(Rep(chars[1], 1), Lit(Tail(chars)))

\* s.length
RECURSIVE StrLen(_)
StrLen(s) == IF s = <<>> THEN 0 ELSE s[1].n + StrLen(Tail(s))

\* the characters of s, one by one
RECURSIVE Expand(_)
Expand(s) ==
  IF s = <<>> THEN <<>>
  ELSE IF s[1].n = 1 THEN <<s[1].c>> \o Expand(Tail(s))
  ELSE <<s[1].c>> \o Expand(<<Run(s[1].c, s[1].n - 1)>> \o Tail(s))

IsSpace(c) == c = " "

\* s.trim()
Trim(s) ==
  LET a == IF s # <<>> /\ IsSpace(s[1].c) THEN Tail(s) ELSE s
  IN  IF a # <<>> /\ IsSpace(a[Len(a)].c) THEN SubSeq(a, 1, Len(a) - 1) ELSE a

Lowers == <<"a","b","c","d","e","f","g","h","i","j","k","l","m",
            "n","o","p","q","r","s","t","u","v","w","x","y","z">>
Uppers == <<"A","B","C","D","E","F","G","H","I","J","K","L","M",
            "N","O","P","Q","R","S","T","U","V","W","X","Y","Z">>

UpperChar(c) ==
  IF \E i \in 1..26 : Lowers[i] = c
  THEN Uppers[CHOOSE i \in 1..26 : Lowers[i] = c] ELSE c
LowerChar(c) ==
  IF \E i \in 1..26 : Uppers[i] = c
  THEN Lowers[CHOOSE i \in 1..26 : Uppers[i] = c] ELSE c

\* s.toUpperCase()
RECURSIVE ToUpperCase(_)
ToUpperCase(s) ==
  IF s = <<>> THEN <<>>
  ELSE Cat(Rep(UpperChar(s[1].c), s[1].n), ToUpperCase(Tail(s)))

\* s.toLowerCase()
RECURSIVE ToLowerCase(_)
ToLowerCase(s) ==
  IF s = <<>> THEN <<>>
  ELSE Cat(Rep(LowerChar(s[1].c), s[1].n), ToLowerCase(Tail(s)))

\* array.indexOf(x), 0-based, -1 when absent
IndexOf(arr, x) ==
  IF \E i \in 1..Len(arr) : arr[i] = x
  THEN (CHOOSE i \in 1..Len(arr) :
          arr[i] = x /\ \A j \in 1..(i - 1) : arr[j] # x) - 1
  ELSE -1

\* Array.from(new Set(arr)): the first occurrences, in order
Unique(arr) ==
  LET isFirst(i) == \A j \in 1..(i - 1) : arr[j] # arr[i]
      firsts == SelectSeq([i \in 1..Len(arr) |-> i], isFirst)
  IN  [k \in 1..Len(firsts) |-> arr[firsts[k]]]

Range(arr) == {arr[i] : i \in 1..Len(arr)}

\* the digest, taken as injective on its input string
sha256Hex(input) == <<"sha256", input>>

\* chunk(items, size)
RECURSIVE chunkFrom(_, _, _)
chunkFrom(items, size, i) ==
  IF i >= Len(items) THEN <<>>
  ELSE <<SubSeq(items, i + 1, IF i + size < Len(items) THEN i + size ELSE Len(items))>>
         \o chunkFrom(items, size, i + size)
\* faulty variant: the loop advances by size - 1, so that consecutive chunks share
\* an element
chunk_Overlap(items, size) ==
  [c \in 1..((Len(items) + size - 2) \div (size - 1)) |->
     SubSeq(items, (c - 1) * (size - 1) + 1,
            IF (c - 1) * (size - 1) + size < Len(items)
            THEN (c - 1) * (size - 1) + size ELSE Len(items))]

chunk(items, size) == chunkFrom(items, size, 0)

IsDigit(c) == c \in {"0","1","2","3","4","5","6","7","8","9"}
AllDigits(cs) == cs # <<>> /\ \A i \in 1..Len(cs) : IsDigit(cs[i])

\* /^ENSG\d+(\.\d+)?$/.test(upper)
EnsemblPattern(upper) ==
  LET cs == Expand(upper)
  IN  /\ Len(cs) >= 5
      /\ SubSeq(cs, 1, 4) = <<"E", "N", "S", "G">>
      /\ LET rest == SubSeq(cs, 5, Len(cs))
             dots == {i \in 1..Len(rest) : rest[i] = "."}
         IN  IF dots = {} THEN AllDigits(rest)
             ELSE /\ Cardinality(dots) = 1
                  /\ LET d == CHOOSE i \in dots : TRUE
                     IN  /\ AllDigits(SubSeq(rest, 1, d - 1))
                         /\ AllDigits(SubSeq(rest, d + 1, Len(rest)))

\* upper.split(".")[0]
BeforeDot(s) ==
  LET cs == Expand(s)
      dots == {i \in 1..Len(cs) : cs[i] = "."}
  IN  IF dots = {} THEN s
      ELSE Lit(SubSeq(cs, 1, (CHOOSE i \in dots : \A j \in dots : i <= j) - 1))

\* normalizeEnsemblId(value): Null, or Some(identifier)
normalizeEnsemblId(value) ==
  LET trimmed == Trim(value)
      upper == ToUpperCase(trimmed)
  IN  IF trimmed = EmptyStr THEN Null
      ELSE IF ~EnsemblPattern(upper) THEN Null
      ELSE Some(BeforeDot(upper))

\* ------------------------------------------------- the pair pipeline
\* faulty variant: the length rule reads >= instead of >
warningsOf_LengthGe(smiles, sequence) ==
  (IF Trim(smiles) = EmptyStr THEN <<WARNING_INVALID_SMILES>> ELSE <<>>)
    \o (IF Trim(sequence) = EmptyStr THEN <<WARNING_SEQUENCE_MISSING>>
        ELSE IF StrLen(sequence) >= SEQUENCE_MAX_LENGTH
             THEN <<WARNING_SEQUENCE_TOO_LONG>>
        ELSE <<>>)

\* the warning rules of the pair loop
warningsOf(smiles, sequence) ==
  (IF Trim(smiles) = EmptyStr THEN <<WARNING_INVALID_SMILES>> ELSE <<>>)
    \o (IF Trim(sequence) = EmptyStr THEN <<WARNING_SEQUENCE_MISSING>>
        ELSE IF StrLen(sequence) > SEQUENCE_MAX_LENGTH
             THEN <<WARNING_SEQUENCE_TOO_LONG>>
        ELSE <<>>)

Bar == Rep("|", 1)

\* faulty variant: no hash for a sequence over the length limit
inputHashOf_OnlyValid(smiles, sequence, modelVersion) ==
  IF Trim(smiles) # EmptyStr /\ Trim(sequence) # EmptyStr
     /\ StrLen(sequence) <= SEQUENCE_MAX_LENGTH
  THEN Some(sha256Hex(Cat(Cat(Cat(Cat(smiles, Bar), sequence), Bar), modelVersion)))
  ELSE Null

\* input_hash of a pair: Null, or Some(digest)
inputHashOf(smiles, sequence, modelVersion) ==
  IF Trim(smiles) # EmptyStr /\ Trim(sequence) # EmptyStr
  THEN Some(sha256Hex(Cat(Cat(Cat(Cat(smiles, Bar), sequence), Bar), modelVersion)))
  ELSE Null

\* value.trim() || null
TrimOrNull(value) == IF Trim(value) = EmptyStr THEN Null ELSE Some(Trim(value))

\* the body of the inner loop: the pair pushed for (ligand, target)
pairOf(ligand, target, modelVersion) ==
  [smiles |-> ligand.smiles,
   sequence |-> target.sequence,
   ligand_name |-> TrimOrNull(ligand.ligandName),
   gene_name |-> TrimOrNull(target.geneName),
   target_ensembl_id |-> target.targetEnsemblId,
   input_hash |-> inputHashOf(ligand.smiles, target.sequence, modelVersion),
   warnings |-> warningsOf(ligand.smiles, target.sequence)]

\* for (const target of targets) { ... pairs.push(...) }
RECURSIVE targetLoop(_, _, _, _)
targetLoop(ligand, targets, modelVersion, j) ==
  IF j > Len(targets) THEN <<>>
  ELSE <<pairOf(ligand, targets[j], modelVersion)>>
         \o targetLoop(ligand, targets, modelVersion, j + 1)

\* for (const ligand of ligands) { for (const target of targets) ... }: the
\* pairs pushed for ligands[lo], ..., ligands[hi], in this order (the lower half
\* of the range, then the upper half)
RECURSIVE ligandLoop(_, _, _, _, _)
ligandLoop(ligands, targets, modelVersion, lo, hi) ==
  IF lo > hi THEN <<>>
  ELSE IF lo = hi THEN targetLoop(ligands[lo], targets, modelVersion, 1)
  ELSE ligandLoop(ligands, targets, modelVersion, lo, (lo + hi) \div 2)
         \o ligandLoop(ligands, targets, modelVersion, ((lo + hi) \div 2) + 1, hi)

\* faulty variant: the loops nested the other way round (targets outer, ligands inner)
generatePairs_TargetOuter(ligands, targets, modelVersion) ==
  [k \in 1..(Len(ligands) * Len(targets)) |->
     pairOf(ligands[((k - 1) % Len(ligands)) + 1],
            targets[((k - 1) \div Len(ligands)) + 1], modelVersion)]

generatePairs(ligands, targets, modelVersion) ==
  ligandLoop(ligands, targets, modelVersion, 1, Len(ligands))

\* faulty variant: every pair with an input hash is a candidate
isCandidate_AnyHash(pair) == ~IsNull(pair.input_hash)

\* if (!warnings.length && input_hash)
isCandidate(pair) == pair.warnings = <<>> /\ ~IsNull(pair.input_hash)

\* candidateHashes: the hashes pushed by the pair loop, in order
candidateHashesOf(pairs) ==
  LET pushed == SelectSeq(pairs, isCandidate)
  IN  [k \in 1..Len(pushed) |-> Get(pushed[k].input_hash)]

\* faulty variant: a row too short for the column is read at its last cell
cellOf_LastCell(row, index) ==
  IF index >= 0 /\ index < Len(row) THEN Trim(row[index + 1])
  ELSE IF Len(row) > 0 THEN Trim(row[Len(row)]) ELSE EmptyStr

\* row[index]?.trim() ?? ""
cellOf(row, index) ==
  IF index >= 0 /\ index < Len(row) THEN Trim(row[index + 1]) ELSE EmptyStr

lowerHeaders(doc) == [i \in 1..Len(doc.headers) |-> ToLowerCase(doc.headers[i])]

STR_SMILES == Lit(<<"s","m","i","l","e","s">>)
STR_SEQUENCE == Lit(<<"s","e","q","u","e","n","c","e">>)
STR_NAME == Lit(<<"n","a","m","e">>)

\* ligandCsv.rows.map(...)
ligandsOf(doc) ==
  LET smilesIndex == IndexOf(lowerHeaders(doc), STR_SMILES)
      ligandNameIndex == IndexOf(lowerHeaders(doc), STR_NAME)
  IN  [i \in 1..Len(doc.rows) |->
         [smiles |-> cellOf(doc.rows[i], smilesIndex),
          ligandName |-> IF ligandNameIndex >= 0
                         THEN cellOf(doc.rows[i], ligandNameIndex) ELSE EmptyStr]]

\* targetCsv.rows.map(...)
targetsOf(doc) ==
  LET sequenceIndex == IndexOf(lowerHeaders(doc), STR_SEQUENCE)
      geneNameIndex == IndexOf(lowerHeaders(doc), STR_NAME)
  IN  [i \in 1..Len(doc.rows) |->
         [sequence |-> cellOf(doc.rows[i], sequenceIndex),
          geneName |-> IF geneNameIndex >= 0
                       THEN cellOf(doc.rows[i], geneNameIndex) ELSE EmptyStr,
          targetEnsemblId |-> Null]]

\* ------------------------------------------------ identifier resolution
\* faulty variant: no fast path, every non-empty symbol goes to the remote lookup
RECURSIVE pendingOf_NoFastPath(_)
pendingOf_NoFastPath(symbols) ==
  IF symbols = <<>> THEN <<>>
  ELSE (IF Trim(symbols[1]) = EmptyStr THEN <<>> ELSE <<Trim(symbols[1])>>)
         \o pendingOf_NoFastPath(Tail(symbols))

\* the symbols resolveEnsemblIds sends to the remote lookup
RECURSIVE pendingOf(_)
pendingOf(symbols) ==
  IF symbols = <<>> THEN <<>>
  ELSE (IF Trim(symbols[1]) = EmptyStr THEN <<>>
        ELSE IF ~IsNull(normalizeEnsemblId(Trim(symbols[1]))) THEN <<>>
        ELSE <<Trim(symbols[1])>>)
         \o pendingOf(Tail(symbols))

\* the symbols resolveEnsemblIds maps without a remote call
directOf(symbols) ==
  LET hit == {i \in 1..Len(symbols) :
                Trim(symbols[i]) # EmptyStr
                /\ ~IsNull(normalizeEnsemblId(Trim(symbols[i])))}
  IN  [s \in {Trim(symbols[i]) : i \in hit} |-> Get(normalizeEnsemblId(s))]

\* geneSymbols, uniqueGeneSymbols
RECURSIVE geneSymbolsOf(_)
geneSymbolsOf(targets) ==
  IF targets = <<>> THEN <<>>
  ELSE (IF Trim(targets[1].geneName) = EmptyStr THEN <<>>
        ELSE <<Trim(targets[1].geneName)>>)
         \o geneSymbolsOf(Tail(targets))
uniqueGeneSymbolsOf(targets) == Unique(geneSymbolsOf(targets))

\* faulty variant: an entry of the payload is taken whatever its id
resolvedOf_AnyId(symbols, payload) ==
  LET direct == directOf(symbols)
      pending == pendingOf(symbols)
  IN  IF IsNull(payload) THEN direct
      ELSE LET p == Get(payload)
               got == {s \in Range(pending) : s \in DOMAIN p /\ ~IsNull(p[s])}
           IN  [s \in got |-> Get(p[s])] @@ direct

\* the map resolveEnsemblIds returns, given the remote payload (symbol -> id,
\* an id of Null or "" being no id) or no payload (Null: error, timeout, non-ok)
resolvedOf(symbols, payload) ==
  LET direct == directOf(symbols)
      pending == pendingOf(symbols)
  IN  IF IsNull(payload) THEN direct
      ELSE LET p == Get(payload)
               got == {s \in Range(pending) :
                         s \in DOMAIN p /\ ~IsNull(p[s]) /\ Get(p[s]) # EmptyStr}
           IN  [s \in got |-> Get(p[s])] @@ direct

\* faulty variant: a resolved target is given its identifier as gene name
targetsWithEnsemblOf_RenameGene(targets, ensemblBySymbol) ==
  [i \in 1..Len(targets) |->
     LET geneName == Trim(targets[i].geneName)
         direct == IF geneName # EmptyStr THEN normalizeEnsemblId(geneName) ELSE Null
         id == IF ~IsNull(direct) THEN direct
               ELSE IF geneName # EmptyStr /\ geneName \in DOMAIN ensemblBySymbol
                    THEN Some(ensemblBySymbol[geneName])
               ELSE Null
     IN  [targets[i] EXCEPT !.targetEnsemblId = id,
                            !.geneName = IF IsNull(id) THEN @ ELSE Get(id)]]

\* targetsWithEnsembl
targetsWithEnsemblOf(targets, ensemblBySymbol) ==
  [i \in 1..Len(targets) |->
     LET geneName == Trim(targets[i].geneName)
         direct == IF geneName # EmptyStr THEN normalizeEnsemblId(geneName) ELSE Null
     IN  [targets[i] EXCEPT !.targetEnsemblId =
            IF ~IsNull(direct) THEN direct
            ELSE IF geneName # EmptyStr /\ geneName \in DOMAIN ensemblBySymbol
                 THEN Some(ensemblBySymbol[geneName])
            ELSE Null]]

\* ------------------------------------------------------- the store
\* faulty variant: the query filters on the wrong status
doneRows_WrongStatus(rows, batch) ==
  {r \in rows : r.status = "queued" /\ ~IsNull(r.input_hash)
                /\ Get(r.input_hash) \in Range(batch)}

\* faulty variant: the query does not filter on status
doneRows_AnyStatus(rows, batch) ==
  {r \in rows : ~IsNull(r.input_hash) /\ Get(r.input_hash) \in Range(batch)}

\* .select("input_hash, affinity_value, affinity_prob").eq("status", "done")
\*   .in("input_hash", batch)
doneRows(rows, batch) ==
  {r \in rows : r.status = "done" /\ ~IsNull(r.input_hash)
                /\ Get(r.input_hash) \in Range(batch)}

DoneRun(r) ==
  [input_hash |-> Get(r.input_hash),
   affinity_value |-> r.affinity_value,
   affinity_prob |-> r.affinity_prob]

\* what data.forEach(row => doneByHash.set(row.input_hash, row)) can leave,
\* the store returning the rows in any order: one of its rows per hash
doneMaps(data) ==
  LET hs == {Get(r.input_hash) : r \in data}
  IN  {f \in [hs -> {DoneRun(r) : r \in data}] : \A x \in hs : f[x].input_hash = x}

\* `${indicationId}|${targetEnsemblId}`
associationKey(indicationId, targetEnsemblId) ==
  Cat(Cat(indicationId, Bar), targetEnsemblId)

\* faulty variant: only completed rows are taken for the cache
associationRows_DoneOnly(rows, indicationId, batch) ==
  {r \in rows : r.status = "done"
                /\ r.indication_id = Some(indicationId)
                /\ ~IsNull(r.target_ensembl_id)
                /\ Get(r.target_ensembl_id) \in Range(batch)}

\* .select("indication_id, target_ensembl_id, association_score")
\*   .eq("indication_id", indicationId).in("target_ensembl_id", batch)
associationRows(rows, indicationId, batch) ==
  {r \in rows : r.indication_id = Some(indicationId)
                /\ ~IsNull(r.target_ensembl_id)
                /\ Get(r.target_ensembl_id) \in Range(batch)}

\* what the forEach over the association rows can leave in associationByKey
associationMaps(data, indicationId) ==
  LET scored == {r \in data : ~IsNull(r.association_score)}
      ks == {associationKey(indicationId, Get(r.target_ensembl_id)) : r \in scored}
  IN  {f \in [ks -> {r.association_score : r \in scored}] :
         \A k \in ks : \E r \in scored :
           /\ associationKey(indicationId, Get(r.target_ensembl_id)) = k
           /\ r.association_score = f[k]}

\* ------------------------------------------------ the records to insert
\* the prior done run of a pair: doneByHash.get(pair.input_hash), Null when none
priorOf(h, pair) ==
  IF ~IsNull(pair.input_hash) /\ Get(pair.input_hash) \in DOMAIN h.doneByHash
  THEN Some(h.doneByHash[Get(pair.input_hash)]) ELSE Null

\* associationByKey.get(associationKey(pair.target_ensembl_id)) ?? null
associationScoreOf(h, pair) ==
  IF IsNull(pair.target_ensembl_id) THEN Null
  ELSE LET key == associationKey(h.indicationId, Get(pair.target_ensembl_id))
       IN  IF key \in DOMAIN h.associationByKey THEN h.associationByKey[key] ELSE Null

\* faulty variant: every record takes its own time stamp
newRow_StampPerRow(h, route, pair, ident) ==
  [id |-> ident,
   user_id |-> h.userId,
   status |-> IF Len(pair.warnings) > 0 THEN "failed" ELSE "queued",
   memo |-> h.memo,
   created_at |-> h.now + ident[2],
   smiles |-> pair.smiles,
   smiles_canon |-> Null,
   sequence |-> pair.sequence,
   ligand_name |-> pair.ligand_name,
   gene_name |-> pair.gene_name,
   indication_id |-> IF route = "enrich" THEN Some(h.indicationId) ELSE Null,
   target_ensembl_id |-> IF route = "enrich" THEN pair.target_ensembl_id ELSE Null,
   association_score |-> IF route = "enrich" THEN associationScoreOf(h, pair) ELSE Null,
   affinity_value |-> Null,
   affinity_prob |-> Null,
   input_hash |-> pair.input_hash,
   warnings |-> IF Len(pair.warnings) > 0 THEN Some(pair.warnings) ELSE Null,
   model_version |-> h.modelVersion]

\* faulty variant: a pair without warning and without prior result is marked done
newRow_MarkDone(h, route, pair, ident) ==
  [id |-> ident,
   user_id |-> h.userId,
   status |-> IF Len(pair.warnings) > 0 THEN "failed" ELSE "done",
   memo |-> h.memo,
   created_at |-> h.now,
   smiles |-> pair.smiles,
   smiles_canon |-> Null,
   sequence |-> pair.sequence,
   ligand_name |-> pair.ligand_name,
   gene_name |-> pair.gene_name,
   indication_id |-> IF route = "enrich" THEN Some(h.indicationId) ELSE Null,
   target_ensembl_id |-> IF route = "enrich" THEN pair.target_ensembl_id ELSE Null,
   association_score |-> IF route = "enrich" THEN associationScoreOf(h, pair) ELSE Null,
   affinity_value |-> Null,
   affinity_prob |-> Null,
   input_hash |-> pair.input_hash,
   warnings |-> IF Len(pair.warnings) > 0 THEN Some(pair.warnings) ELSE Null,
   model_version |-> h.modelVersion]

\* the second return of the map callback: a queued or failed record;
\* ident is the fresh id (crypto.randomUUID())
newRow(h, route, pair, ident) ==
  [id |-> ident,
   user_id |-> h.userId,
   status |-> IF Len(pair.warnings) > 0 THEN "failed" ELSE "queued",
   memo |-> h.memo,
   created_at |-> h.now,
   smiles |-> pair.smiles,
   smiles_canon |-> Null,
   sequence |-> pair.sequence,
   ligand_name |-> pair.ligand_name,
   gene_name |-> pair.gene_name,
   indication_id |-> IF route = "enrich" THEN Some(h.indicationId) ELSE Null,
   target_ensembl_id |-> IF route = "enrich" THEN pair.target_ensembl_id ELSE Null,
   association_score |-> IF route = "enrich" THEN associationScoreOf(h, pair) ELSE Null,
   affinity_value |-> Null,
   affinity_prob |-> Null,
   input_hash |-> pair.input_hash,
   warnings |-> IF Len(pair.warnings) > 0 THEN Some(pair.warnings) ELSE Null,
   model_version |-> h.modelVersion]

\* the first return of the map callback: a done record copied from prior
doneRow(h, route, pair, ident, prior) ==
  [newRow(h, route, pair, ident) EXCEPT
     !.status = "done",
     !.affinity_value = prior.affinity_value,
     !.affinity_prob = prior.affinity_prob,
     !.warnings = Some(<<WARNING_PREVIOUS_RESULT>>)]

\* faulty variant: the done branch does not copy the prior affinity values
rowOf_NoCopy(h, route, pair, ident) ==
  IF ~(Len(pair.warnings) > 0) /\ ~IsNull(priorOf(h, pair))
  THEN [doneRow(h, route, pair, ident, Get(priorOf(h, pair))) EXCEPT
          !.affinity_value = Null, !.affinity_prob = Null]
  ELSE newRow(h, route, pair, ident)

\* one element of rowsToInsert
rowOf(h, route, pair, ident) ==
  LET hasWarnings == Len(pair.warnings) > 0
      prior == priorOf(h, pair)
  IN  IF ~hasWarnings /\ ~IsNull(prior)
      THEN doneRow(h, route, pair, ident, Get(prior))
      ELSE newRow(h, route, pair, ident)

\* pairs.map(...)
rowsToInsertOf(h, route) ==
  [k \in 1..Len(h.pairs) |-> rowOf(h, route, h.pairs[k], <<h.self, k>>)]

\* faulty variant: a failed row is not counted in total
RECURSIVE reduceSummary_SkipFailed(_, _)
reduceSummary_SkipFailed(rows, acc) ==
  IF rows = <<>> THEN acc
  ELSE IF Len(rows) = 1
  THEN [total |-> acc.total + (IF rows[1].status = "failed" THEN 0 ELSE 1),
        queued |-> acc.queued + (IF rows[1].status = "queued" THEN 1 ELSE 0),
        done |-> acc.done + (IF rows[1].status = "done" THEN 1 ELSE 0),
        failed |-> acc.failed + (IF rows[1].status = "failed" THEN 1 ELSE 0)]
  ELSE LET half == reduceSummary_SkipFailed(SubSeq(rows, 1, Len(rows) \div 2), acc)
       IN  IF half.total >= 0
           THEN reduceSummary_SkipFailed(SubSeq(rows, (Len(rows) \div 2) + 1, Len(rows)), half)
           ELSE half

\* rowsToInsert.reduce((acc, row) => ..., { total: 0, queued: 0, done: 0, failed: 0 }):
\* the callback applied to the rows in order, from acc: to the first half of the
\* rows, then from that result (half, a record of counts, computed first) to the
\* second half
RECURSIVE reduceSummary(_, _)
reduceSummary(rows, acc) ==
  IF rows = <<>> THEN acc
  ELSE IF Len(rows) = 1
  THEN [total |-> acc.total + 1,
        queued |-> acc.queued + (IF rows[1].status = "queued" THEN 1 ELSE 0),
        done |-> acc.done + (IF rows[1].status = "done" THEN 1 ELSE 0),
        failed |-> acc.failed + (IF rows[1].status = "failed" THEN 1 ELSE 0)]
  ELSE LET half == reduceSummary(SubSeq(rows, 1, Len(rows) \div 2), acc)
       IN  IF half.total >= 0
           THEN reduceSummary(SubSeq(rows, (Len(rows) \div 2) + 1, Len(rows)), half)
           ELSE half

summaryOf(rows) == reduceSummary(rows, [total |-> 0, queued |-> 0, done |-> 0, failed |-> 0])

\* ------------------------------------------------------ the inputs
Procs == {1, 2}

STR_CCO == Lit(<<"C","C","O">>)
STR_V1 == Lit(<<"v","1">>)
STR_EFO == Lit(<<"E","F","O","_","0","0","0","0","5","6","5">>)
STR_EFO_OTHER == Lit(<<"E","F","O","_","1">>)
STR_TP53 == Lit(<<"T","P","5","3">>)
STR_XY == Lit(<<"X","Y">>)
STR_ENSG7 == Lit(<<"E","N","S","G","7">>)
STR_ENSG1 == Lit(<<"E","N","S","G","1">>)
STR_BEARER == <<"B","e","a","r","e","r"," ">>
\* a sequence and a model version that hold the separator of the hash input
STR_M_BAR_X == Cat(Cat(Rep("M", 1), Bar), Rep("x", 1))
STR_X_BAR_V1 == Cat(Cat(Rep("x", 1), Bar), STR_V1)

\* INDICATIONS, isValidIndication
INDICATIONS == <<[id |-> STR_EFO, label |-> "Leukemia"]>>
isValidIndication(id) == \E i \in 1..Len(INDICATIONS) : INDICATIONS[i].id = id

\* process.env: the deployment's settings; and which of the two handlers is deployed
Envs ==
  {[supabaseUrl |-> "url", supabaseServiceKey |-> "key", modelVersion |-> STR_V1],
   [supabaseUrl |-> "url", supabaseServiceKey |-> "", modelVersion |-> STR_V1],
   [supabaseUrl |-> "url", supabaseServiceKey |-> "key", modelVersion |-> EmptyStr]}
Routes == {"plain", "enrich"}

\* the Authorization header, its characters
AuthHeaders ==
  {<<>>,
   <<"B","a","s","i","c"," ","t","1">>,
   STR_BEARER,
   STR_BEARER \o <<"t","1">>,
   STR_BEARER \o <<"t","0">>}

\* the identity service: the user of a token, Null for a token it does not know
userOfToken(token) == IF token = Lit(<<"t","1">>) THEN Some("alice") ELSE Null

SeqsUpTo(S, n) == UNION {[1..k -> S] : k \in 0..n}

\* parsed files: parseCsv has dropped the all-blank records and trimmed the headers
LigandRowKinds ==
  {<<Cat(Rep(" ", 1), Cat(STR_CCO, Rep(" ", 1))), Lit(<<"e","t","h">>)>>,
   <<Rep("C", 2), Rep(" ", 1)>>,
   <<EmptyStr, Lit(<<"a","q">>)>>}
TargetRowKinds ==
  {<<Cat(Rep(" ", 1), Rep("M", SEQUENCE_MAX_LENGTH)), STR_TP53>>,
   <<Rep(" ", 2), Lit(<<"e","n","s","g","1",".","2">>)>>,
   <<Rep("M", SEQUENCE_MAX_LENGTH + 1), EmptyStr>>}
LigandHeader == <<Lit(<<"S","M","I","L","E","S">>), STR_NAME>>
TargetHeader == <<Lit(<<"S","e","q","u","e","n","c","e">>), Lit(<<"N","a","m","e">>)>>
EmptyDoc == [headers |-> <<>>, rows |-> <<>>]
LigandDocs ==
  {[headers |-> LigandHeader, rows |-> rs] : rs \in SeqsUpTo(LigandRowKinds, MaxLigands)}
    \cup {EmptyDoc, [headers |-> <<STR_NAME>>, rows |-> <<<<Lit(<<"a","q">>)>>>>]}
TargetDocs ==
  {[headers |-> TargetHeader, rows |-> rs] : rs \in SeqsUpTo(TargetRowKinds, MaxTargets)}
    \cup {EmptyDoc, [headers |-> <<STR_NAME>>, rows |-> <<<<STR_TP53>>>>]}

\* a submission of one ligand and one target whose sequence holds a "|"
BarForm ==
  [ligand_csv |-> Some([headers |-> LigandHeader, rows |-> <<<<STR_CCO, EmptyStr>>>>]),
   target_csv |-> Some([headers |-> TargetHeader, rows |-> <<<<STR_M_BAR_X, EmptyStr>>>>]),
   memo |-> Some(Lit(<<"m">>)),
   indication_id |-> Some(STR_EFO)]

\* a submission of one target and DEDUP_CHUNK_SIZE + 1 ligands of different smiles
BigForm ==
  [ligand_csv |->
     Some([headers |-> LigandHeader,
           rows |-> [i \in 1..(DEDUP_CHUNK_SIZE + 1) |->
                       <<IF i = 1 THEN STR_CCO ELSE Rep("C", i), EmptyStr>>]]),
   target_csv |->
     Some([headers |-> TargetHeader,
           rows |-> <<<<Rep("M", SEQUENCE_MAX_LENGTH), EmptyStr>>>>]),
   memo |-> Some(Lit(<<"m">>)),
   indication_id |-> Some(STR_EFO)]

\* the same submission without indication_id, and with an indication that is not
\* in INDICATIONS
NoIndicationForm == [BarForm EXCEPT !.indication_id = Null]
UnlistedIndicationForm == [BarForm EXCEPT !.indication_id = Some(STR_EFO_OTHER)]

\* a submission of one ligand and two targets whose gene names are symbols, one
\* the lookup service knows and one it does not
TwoSymbolForm ==
  [ligand_csv |-> Some([headers |-> LigandHeader, rows |-> <<<<STR_CCO, EmptyStr>>>>]),
   target_csv |-> Some([headers |-> TargetHeader,
                        rows |-> <<<<Rep("M", 1), STR_TP53>>, <<Rep("M", 2), STR_XY>>>>]),
   memo |-> Some(Lit(<<"m">>)),
   indication_id |-> Some(STR_EFO)]

\* a submission whose files have the required column second and data rows of
\* one cell and of two cells
ShortRowForm ==
  [ligand_csv |-> Some([headers |-> <<STR_NAME, STR_SMILES>>,
                        rows |-> <<<<Lit(<<"e","t","h">>)>>,
                                   <<Lit(<<"a","q">>), STR_CCO>>>>]),
   target_csv |-> Some([headers |-> <<STR_NAME, STR_SEQUENCE>>,
                        rows |-> <<<<STR_TP53>>, <<EmptyStr, Rep("M", 1)>>>>]),
   memo |-> Some(Lit(<<"m">>)),
   indication_id |-> Some(STR_EFO)]

\* request.formData(): a file field is Null when it is no File
Forms ==
  [ligand_csv : {Null} \cup {Some(d) : d \in LigandDocs},
   target_csv : {Null} \cup {Some(d) : d \in TargetDocs},
   memo : {Some(Lit(<<"m">>))},
   indication_id : {Some(Cat(STR_EFO, Rep(" ", 1)))}]
    \cup [ligand_csv : {Null, Some(EmptyDoc)},
          target_csv : {Some(EmptyDoc)},
          memo : {Null},
          indication_id : {Null, Some(STR_EFO_OTHER)}]
    \cup {BarForm, BigForm, NoIndicationForm, UnlistedIndicationForm, TwoSymbolForm,
          ShortRowForm}

\* single-row files
SingleRowForms ==
  [ligand_csv : {Some([headers |-> LigandHeader, rows |-> <<r>>]) : r \in LigandRowKinds},
   target_csv : {Some([headers |-> TargetHeader, rows |-> <<r>>]) : r \in TargetRowKinds}
                  \cup {Some(EmptyDoc)},
   memo : {Some(Lit(<<"m">>))},
   indication_id : {Some(STR_EFO)}]

\* the workloads: one submission of any form; two concurrent submissions of
\* single-row files; one submission of single-row files whose caller may abort
\* the request
Workloads == {"one", "two", "abort"}
ClientsOf(workload) == IF workload = "two" THEN Procs ELSE {1}
FormsOf(workload) == IF workload = "one" THEN Forms ELSE SingleRowForms

\* replies of the symbol lookup service to a batch: the fetch fails or times out,
\* answers non-ok, or answers a payload (symbol -> id or no id): an empty one,
\* one of the requested symbols with the ids the service knows, or one that has
\* an empty id for each requested symbol and an entry for a symbol not requested
lookupTable(symbol) == IF symbol = STR_TP53 THEN Some(STR_ENSG7) ELSE Null
LookupReplies(pending) ==
  {[kind |-> "throw", payload |-> Null], [kind |-> "nonok", payload |-> Null],
   [kind |-> "ok", payload |-> Some(<<>>)],
   [kind |-> "ok", payload |-> Some([s \in Range(pending) |-> lookupTable(s)])],
   [kind |-> "ok",
    payload |-> Some([s \in Range(pending) \cup {STR_ENSG1} |->
                        IF s = STR_ENSG1 THEN Some(STR_ENSG7) ELSE Some(EmptyStr)])]}

\* replies of the ranking service to one page request
PageRowSets ==
  {<<>>,
   <<[disease |-> Some(STR_EFO_OTHER), score |-> Some(9)]>>,
   <<[disease |-> Some(STR_EFO_OTHER), score |-> Some(9)],
     [disease |-> Some(STR_EFO), score |-> Some(5)]>>,
   <<[disease |-> Some(STR_EFO), score |-> Null]>>}
PageCounts ==
  {Null, Some(0), Some(OPENTARGETS_PAGE_SIZE), Some(OPENTARGETS_PAGE_SIZE + 1)}
PageReplies ==
  {[kind |-> "throw", rows |-> <<>>, count |-> Null],
   [kind |-> "nonok", rows |-> <<>>, count |-> Null]}
    \cup {[kind |-> "ok", rows |-> rs, count |-> c] : rs \in PageRowSets, c \in PageCounts}
\* with two concurrent submissions the ranking service reports no count
PageRepliesOf(workload) ==
  IF workload = "two" THEN {reply \in PageReplies : IsNull(reply.count)} ELSE PageReplies

\* ------------------------------------------------------- the state
\* handler[p]: the POST handler instance p, its position (pc), its local variables,
\*             the external calls it has issued, in order, each with what it was
\*             sent and how it ended (requests), the pages the ranking service
\*             has answered, in order (pages), the form it has read (formData),
\*             whether the caller has aborted the request (aborted: the state of
\*             request.signal, which the handler never reads), and its response
\* store:      the rows of the "runs" table
\* deploy:     process.env and the deployed handler
\* workload:   the requests the clients send in this behaviour
\* parser:     one call of parseCsv: its input, its position and its locals
\* fetcher:    one call of fetchAssociationScore on its own
VARIABLES handler, store, deploy, workload, parser, fetcher
vars == <<handler, store, deploy, workload, parser, fetcher>>

NoResponse == [status |-> 0, error |-> "", summary |-> Null]

IdleHandler(p) ==
  [self |-> p, pc |-> "idle", token |-> EmptyStr, modelVersion |-> EmptyStr,
   userId |-> Null, memo |-> EmptyStr, indicationId |-> EmptyStr, now |-> 0,
   ligands |-> <<>>, targets |-> <<>>, pending |-> <<>>, pairs |-> <<>>,
   chunks |-> <<>>, chunkIdx |-> 0, doneByHash |-> <<>>,
   uniqueTargetEnsemblIds |-> <<>>, associationByKey |-> <<>>,
   fetchPos |-> 0, index |-> 0, total |-> 0,
   rowsToInsert |-> <<>>, response |-> NoResponse, requests |-> <<>>, pages |-> <<>>,
   formData |-> Null, aborted |-> FALSE]

\* a row of an earlier submission that downstream scoring has completed
SeedDone ==
  [id |-> <<0, 1>>, user_id |-> Some("bob"), status |-> "done", memo |-> EmptyStr,
   created_at |-> 0, smiles |-> STR_CCO, smiles_canon |-> Null,
   sequence |-> Rep("M", SEQUENCE_MAX_LENGTH),
   ligand_name |-> Null, gene_name |-> Null,
   indication_id |-> Some(STR_EFO), target_ensembl_id |-> Some(STR_ENSG1),
   association_score |-> Some(3), affinity_value |-> Some(7), affinity_prob |-> Some(1),
   input_hash |-> inputHashOf(STR_CCO, Rep("M", SEQUENCE_MAX_LENGTH), STR_V1),
   warnings |-> Null, model_version |-> STR_V1]
\* a completed row of an earlier deployment, whose MODEL_VERSION was "x|v1"
SeedOtherVersion ==
  [SeedDone EXCEPT !.id = <<0, 2>>, !.sequence = Rep("M", 1),
     !.indication_id = Null, !.target_ensembl_id = Null, !.association_score = Null,
     !.affinity_value = Some(8), !.affinity_prob = Some(0),
     !.input_hash = inputHashOf(STR_CCO, Rep("M", 1), STR_X_BAR_V1),
     !.model_version = STR_X_BAR_V1]
\* a completed row for a sequence that is now longer than SEQUENCE_MAX_LENGTH
SeedLong ==
  [SeedDone EXCEPT !.id = <<0, 3>>, !.sequence = Rep("M", SEQUENCE_MAX_LENGTH + 1),
     !.indication_id = Null, !.target_ensembl_id = Null, !.association_score = Null,
     !.affinity_value = Some(6), !.affinity_prob = Some(1),
     !.input_hash = inputHashOf(STR_CCO, Rep("M", SEQUENCE_MAX_LENGTH + 1), STR_V1)]
\* a completed row of the current model version whose smiles holds a "|"
SeedSplit ==
  [SeedDone EXCEPT !.id = <<0, 4>>, !.smiles = Cat(Cat(STR_CCO, Bar), Rep("M", 1)),
     !.sequence = Rep("x", 1),
     !.indication_id = Null, !.target_ensembl_id = Null, !.association_score = Null,
     !.affinity_value = Some(4), !.affinity_prob = Some(0),
     !.input_hash = inputHashOf(Cat(Cat(STR_CCO, Bar), Rep("M", 1)), Rep("x", 1), STR_V1)]
InitStores == {{}, {SeedDone}, {SeedDone, SeedOtherVersion, SeedLong, SeedSplit}}

\* ------------------------------------------- the handler, await to await
\* return NextResponse.json(...)
respond(h, status, error, summary) ==
  [h EXCEPT !.pc = "done",
            !.response = [status |-> status, error |-> error, summary |-> summary]]

\* an external call goes out; the handler awaits it at pc
issue(h, kind, arg, pc) ==
  [h EXCEPT !.pc = pc,
            !.requests = Append(@, [kind |-> kind, arg |-> arg, result |-> "pending"])]

\* faulty variant: the handler goes on without the call having ended
settle_NoAwait(h, result) == h

\* the awaited call has ended: "ok", or "error" (an error result, a non-ok
\* response, a rejected or timed-out fetch)
settle(h, result) == [h EXCEPT !.requests[Len(h.requests)].result = result]

\* rowsToInsert is built and supabase.from("runs").insert(rowsToInsert) goes out
issueInsert(h, route) ==
  issue([h EXCEPT !.rowsToInsert = rowsToInsertOf(h, route)],
        "insert", Len(h.pairs), "insert")

\* faulty variant: the loop does not skip the identifiers that have a cached score
RECURSIVE fetchLoop_NoSkip(_, _, _)
fetchLoop_NoSkip(h, route, pos) ==
  IF pos > Len(h.uniqueTargetEnsemblIds) THEN issueInsert(h, route)
  ELSE issue([h EXCEPT !.fetchPos = pos, !.index = 0, !.total = 0],
             "fetch", [ensemblId |-> h.uniqueTargetEnsemblIds[pos], index |-> 0], "fetch")

\* for (const targetEnsemblId of uniqueTargetEnsemblIds), from position pos,
\* up to the first page request of fetchAssociationScore
RECURSIVE fetchLoop(_, _, _)
fetchLoop(h, route, pos) ==
  IF pos > Len(h.uniqueTargetEnsemblIds) THEN issueInsert(h, route)
  ELSE IF associationKey(h.indicationId, h.uniqueTargetEnsemblIds[pos])
            \in DOMAIN h.associationByKey
       THEN fetchLoop(h, route, pos + 1)
  ELSE issue([h EXCEPT !.fetchPos = pos, !.index = 0, !.total = 0],
             "fetch", [ensemblId |-> h.uniqueTargetEnsemblIds[pos], index |-> 0], "fetch")

\* .filter((value) => Boolean(value)) on the pairs' identifiers
hasTargetId(pair) ==
  ~IsNull(pair.target_ensembl_id) /\ Get(pair.target_ensembl_id) # EmptyStr

\* pair.target_ensembl_id of every pair, the nulls filtered out
targetIdsOf(pairs) ==
  LET kept == SelectSeq(pairs, hasTargetId)
  IN  [k \in 1..Len(kept) |-> Get(kept[k].target_ensembl_id)]

\* after the dedup loop: the association cache query, or straight to the insert
afterDedup(h, route) ==
  IF route = "plain" THEN issueInsert(h, route)
  ELSE LET ids == Unique(targetIdsOf(h.pairs))
           h1 == [h EXCEPT !.uniqueTargetEnsemblIds = ids,
                           !.chunks = chunk(ids, DEDUP_CHUNK_SIZE),
                           !.chunkIdx = 1]
       IN  IF Len(ids) > 0 THEN issue(h1, "assoc", h1.chunks[1], "assoc")
           ELSE fetchLoop(h1, route, 1)

\* the pair loop, then the first dedup query
afterResolve(h, route, targets) ==
  LET pairs == generatePairs(h.ligands, targets, h.modelVersion)
      uniqueHashes == Unique(candidateHashesOf(pairs))
      h1 == [h EXCEPT !.targets = targets, !.pairs = pairs, !.now = h.self,
                      !.chunks = chunk(uniqueHashes, DEDUP_CHUNK_SIZE),
                      !.chunkIdx = 1]
  IN  IF Len(uniqueHashes) > 0 THEN issue(h1, "dedup", h1.chunks[1], "dedup")
      ELSE afterDedup(h1, route)

\* resolveEnsemblIds up to its fetch (the enrichment handler only)
startResolve(h, route, targets) ==
  IF route = "plain" THEN afterResolve(h, route, targets)
  ELSE LET symbols == uniqueGeneSymbolsOf(targets)
           pending == pendingOf(symbols)
       IN  IF Len(pending) = 0
           THEN afterResolve(h, route,
                  targetsWithEnsemblOf(targets, resolvedOf(symbols, Null)))
           ELSE issue([h EXCEPT !.targets = targets, !.pending = pending],
                      "lookup", pending, "lookup")

\* from request.formData() to the first await after validation
readForm(h, route, form) ==
  LET memo == IF IsNull(form.memo) THEN EmptyStr ELSE Get(form.memo)
      indicationId ==
        Trim(IF IsNull(form.indication_id) THEN EmptyStr ELSE Get(form.indication_id))
      h1 == [h EXCEPT !.memo = memo, !.formData = Some(form),
                      !.indicationId = IF route = "enrich" THEN indicationId ELSE EmptyStr]
  IN  IF route = "enrich" /\ (indicationId = EmptyStr \/ ~isValidIndication(indicationId))
      THEN respond(h1, 400, "indication", Null)
      ELSE IF IsNull(form.ligand_csv) \/ IsNull(form.target_csv)
      THEN respond(h1, 400, "files", Null)
      ELSE LET ligandCsv == Get(form.ligand_csv)
               targetCsv == Get(form.target_csv)
           IN  IF \/ IndexOf(lowerHeaders(ligandCsv), STR_SMILES) = -1
                  \/ IndexOf(lowerHeaders(targetCsv), STR_SEQUENCE) = -1
               THEN respond(h1, 400, "headers", Null)
               ELSE IF Len(ligandsOf(ligandCsv)) = 0 \/ Len(targetsOf(targetCsv)) = 0
               THEN respond(h1, 400, "empty", Null)
               ELSE startResolve([h1 EXCEPT !.ligands = ligandsOf(ligandCsv)],
                                 route, targetsOf(targetCsv))

\* authHeader.startsWith("Bearer ") ? authHeader.slice("Bearer ".length) : ""
tokenOf(authHeader) ==
  IF Len(authHeader) >= Len(STR_BEARER)
     /\ SubSeq(authHeader, 1, Len(STR_BEARER)) = STR_BEARER
  THEN Lit(SubSeq(authHeader, Len(STR_BEARER) + 1, Len(authHeader)))
  ELSE EmptyStr

\* faulty variant: the token is checked before the configuration
startRequest_AuthFirst(h, env, authHeader) ==
  IF tokenOf(authHeader) = EmptyStr
  THEN respond([h EXCEPT !.modelVersion = env.modelVersion], 401, "auth", Null)
  ELSE IF env.supabaseUrl = "" \/ env.supabaseServiceKey = "" \/ env.modelVersion = EmptyStr
  THEN respond(h, 500, "config", Null)
  ELSE issue([h EXCEPT !.modelVersion = env.modelVersion, !.token = tokenOf(authHeader)],
             "getUser", tokenOf(authHeader), "getUser")

\* from the start of POST to supabase.auth.getUser(token)
startRequest(h, env, authHeader) ==
  IF env.supabaseUrl = "" \/ env.supabaseServiceKey = "" \/ env.modelVersion = EmptyStr
  THEN respond(h, 500, "config", Null)
  ELSE IF tokenOf(authHeader) = EmptyStr
  THEN respond([h EXCEPT !.modelVersion = env.modelVersion], 401, "auth", Null)
  ELSE issue([h EXCEPT !.modelVersion = env.modelVersion, !.token = tokenOf(authHeader)],
             "getUser", tokenOf(authHeader), "getUser")

\* no call of parseCsv is running
IdleParser ==
  [pc |-> "idle", written |-> Null, text |-> <<>>, normalized |-> <<>>, i |-> 0,
   rows |-> <<>>, row |-> <<>>, field |-> <<>>, inQuotes |-> FALSE,
   result |-> [headers |-> <<>>, rows |-> <<>>]]

\* no call of fetchAssociationScore is running on its own
IdleFetcher ==
  [pc |-> "idle", targetEnsemblId |-> EmptyStr, indicationId |-> EmptyStr,
   ahead |-> 0, rows |-> <<>>, result |-> Null]

\* ------------------------------------------------------- the actions
Init ==
  /\ handler = [p \in Procs |-> IdleHandler(p)]
  /\ store \in InitStores
  /\ deploy \in [env : Envs, route : Routes]
  /\ workload \in Workloads
  /\ parser = IdleParser
  /\ fetcher = IdleFetcher

\* a request arrives at handler p
Start(p) ==
  /\ handler[p].pc = "idle"
  /\ p \in ClientsOf(workload)
  /\ \E authHeader \in AuthHeaders :
       handler' = [handler EXCEPT ![p] = startRequest(@, deploy.env, authHeader)]
  /\ UNCHANGED <<store, deploy, workload, parser, fetcher>>

\* getUser answers: an error (or no user), or the token's user; then the form is read
GetUserReturn(p) ==
  /\ handler[p].pc = "getUser"
  /\ \/ handler' = [handler EXCEPT ![p] = respond(settle(@, "error"), 401, "auth", Null)]
     \/ /\ ~IsNull(userOfToken(handler[p].token))
        /\ \E form \in FormsOf(workload) :
             handler' = [handler EXCEPT ![p] =
               readForm([settle(@, "ok") EXCEPT !.userId = userOfToken(handler[p].token)],
                        deploy.route, form)]
  /\ UNCHANGED <<store, deploy, workload, parser, fetcher>>

\* faulty variant: a failed lookup fails the submission
lookupReplied_FailClosed(h, route, reply) ==
  IF reply.kind # "ok" THEN respond(settle(h, "error"), 500, "lookup", Null)
  ELSE afterResolve(settle(h, "ok"), route,
         targetsWithEnsemblOf(h.targets,
           resolvedOf(uniqueGeneSymbolsOf(h.targets), reply.payload)))

\* resolveEnsemblIds from the lookup's reply to its return, and on to the pair loop
lookupReplied(h, route, reply) ==
  afterResolve(settle(h, IF reply.kind = "ok" THEN "ok" ELSE "error"), route,
    targetsWithEnsemblOf(h.targets,
      resolvedOf(uniqueGeneSymbolsOf(h.targets), reply.payload)))

\* the symbol lookup answers
LookupReturn(p) ==
  /\ handler[p].pc = "lookup"
  /\ \E reply \in LookupReplies(handler[p].pending) :
       handler' = [handler EXCEPT ![p] = lookupReplied(@, deploy.route, reply)]
  /\ UNCHANGED <<store, deploy, workload, parser, fetcher>>

\* faulty variant: a failed dedup query is taken as an empty result
dedupFailed_Continue(h, route) == afterDedup(settle(h, "error"), route)

\* if (error) return 500, in the dedup loop
dedupFailed(h, route) == respond(settle(h, "error"), 500, "dedup", Null)

\* the rest of one round of the dedup loop: data merged into doneByHash as f
dedupAnswered(h, route, f) ==
  LET h1 == [settle(h, "ok") EXCEPT !.doneByHash = f @@ h.doneByHash]
  IN  IF h.chunkIdx < Len(h.chunks)
      THEN issue([h1 EXCEPT !.chunkIdx = h.chunkIdx + 1],
                 "dedup", h.chunks[h.chunkIdx + 1], "dedup")
      ELSE afterDedup(h1, route)

\* one chunk of the dedup query answers: an error, or the done rows of the chunk
DedupReturn(p) ==
  /\ handler[p].pc = "dedup"
  /\ LET h == handler[p] IN
     \/ handler' = [handler EXCEPT ![p] = dedupFailed(h, deploy.route)]
     \/ \E f \in doneMaps(doneRows(store, h.chunks[h.chunkIdx])) :
          handler' = [handler EXCEPT ![p] = dedupAnswered(h, deploy.route, f)]
  /\ UNCHANGED <<store, deploy, workload, parser, fetcher>>

\* if (error) return 500, in the association cache loop
associationFailed(h, route) == respond(settle(h, "error"), 500, "association", Null)

\* the rest of one round of the association cache loop
associationAnswered(h, route, f) ==
  LET h1 == [settle(h, "ok") EXCEPT !.associationByKey = f @@ h.associationByKey]
  IN  IF h.chunkIdx < Len(h.chunks)
      THEN issue([h1 EXCEPT !.chunkIdx = h.chunkIdx + 1],
                 "assoc", h.chunks[h.chunkIdx + 1], "assoc")
      ELSE fetchLoop(h1, route, 1)

\* one chunk of the association cache query answers
AssocReturn(p) ==
  /\ handler[p].pc = "assoc"
  /\ LET h == handler[p] IN
     \/ handler' = [handler EXCEPT ![p] = associationFailed(h, deploy.route)]
     \/ \E f \in associationMaps(
                   associationRows(store, h.indicationId, h.chunks[h.chunkIdx]),
                   h.indicationId) :
          handler' = [handler EXCEPT ![p] = associationAnswered(h, deploy.route, f)]
  /\ UNCHANGED <<store, deploy, workload, parser, fetcher>>

\* faulty variant: a matching row does not end the pagination; the score is
\* returned when the last page has been read
pageOutcome_ScanAll(h, reply) ==
  IF reply.kind # "ok" THEN [kind |-> "throw", score |-> Null, total |-> h.total]
  ELSE LET rows == reply.rows
           total == IF IsNull(reply.count) THEN h.total ELSE Get(reply.count)
           hits == {i \in 1..Len(rows) : rows[i].disease = Some(h.indicationId)}
           index == h.index + 1
       IN  IF index * OPENTARGETS_PAGE_SIZE >= total \/ Len(rows) = 0
           THEN [kind |-> "return",
                 score |-> IF hits # {}
                           THEN rows[CHOOSE i \in hits : \A j \in hits : i <= j].score
                           ELSE Null,
                 total |-> total]
           ELSE [kind |-> "next", score |-> Null, total |-> total]

\* faulty variant: the pagination stops only when the pages read exceed the total
pageOutcome_StrictBound(h, reply) ==
  IF reply.kind # "ok" THEN [kind |-> "throw", score |-> Null, total |-> h.total]
  ELSE LET rows == reply.rows
           total == IF IsNull(reply.count) THEN h.total ELSE Get(reply.count)
           hits == {i \in 1..Len(rows) : rows[i].disease = Some(h.indicationId)}
           index == h.index + 1
       IN  IF hits # {}
           THEN [kind |-> "return",
                 score |-> rows[CHOOSE i \in hits : \A j \in hits : i <= j].score,
                 total |-> total]
           ELSE IF index * OPENTARGETS_PAGE_SIZE > total \/ Len(rows) = 0
           THEN [kind |-> "return", score |-> Null, total |-> total]
           ELSE [kind |-> "next", score |-> Null, total |-> total]

\* fetchAssociationScore after one page reply: it returns a score or null
\* ("return"), throws ("throw"), or goes on to the next page ("next")
pageOutcome(h, reply) ==
  IF reply.kind # "ok" THEN [kind |-> "throw", score |-> Null, total |-> h.total]
  ELSE LET rows == reply.rows
           total == IF IsNull(reply.count) THEN h.total ELSE Get(reply.count)
           hits == {i \in 1..Len(rows) : rows[i].disease = Some(h.indicationId)}
           index == h.index + 1
       IN  IF hits # {}
           THEN [kind |-> "return",
                 score |-> rows[CHOOSE i \in hits : \A j \in hits : i <= j].score,
                 total |-> total]
           ELSE IF index * OPENTARGETS_PAGE_SIZE >= total \/ Len(rows) = 0
           THEN [kind |-> "return", score |-> Null, total |-> total]
           ELSE [kind |-> "next", score |-> Null, total |-> total]

\* the page reply as fetchAssociationScore reads it: response.ok, the rows and
\* the count
pageSeen(h, reply) ==
  [ensemblId |-> h.uniqueTargetEnsemblIds[h.fetchPos], index |-> h.index,
   ok |-> reply.kind = "ok", rows |-> IF reply.kind = "ok" THEN reply.rows ELSE <<>>,
   count |-> IF reply.kind = "ok" THEN reply.count ELSE Null]

\* faulty variant: a failed page request fails the submission
pageReplied_Rethrow(h, route, reply) ==
  IF reply.kind # "ok"
  THEN respond([settle(h, "error") EXCEPT !.pages = Append(@, pageSeen(h, reply))],
               500, "fetch", Null)
  ELSE LET out == pageOutcome(h, reply)
           id == h.uniqueTargetEnsemblIds[h.fetchPos]
           key == associationKey(h.indicationId, id)
           h1 == [settle(h, "ok") EXCEPT !.pages = Append(@, pageSeen(h, reply))]
       IN  IF out.kind = "next"
           THEN issue([h1 EXCEPT !.index = h.index + 1, !.total = out.total],
                      "fetch", [ensemblId |-> id, index |-> h.index + 1], "fetch")
           ELSE fetchLoop([h1 EXCEPT !.associationByKey =
                                        (key :> out.score) @@ h.associationByKey,
                                     !.index = 0, !.total = 0],
                          route, h.fetchPos + 1)

\* faulty variant: total is not a local of the call; the next target starts
\* from the total the last one ended with
pageReplied_SharedTotal(h, route, reply) ==
  LET out == pageOutcome(h, reply)
      id == h.uniqueTargetEnsemblIds[h.fetchPos]
      key == associationKey(h.indicationId, id)
      h0 == settle(h, IF reply.kind = "ok" THEN "ok" ELSE "error")
      h1 == [h0 EXCEPT !.pages = Append(@, pageSeen(h, reply))]
      h2 == fetchLoop([h1 EXCEPT !.associationByKey = (key :> out.score) @@ h.associationByKey],
                      route, h.fetchPos + 1)
  IN  IF out.kind = "next"
      THEN issue([h1 EXCEPT !.index = h.index + 1, !.total = out.total],
                 "fetch", [ensemblId |-> id, index |-> h.index + 1], "fetch")
      ELSE IF h2.pc = "fetch" THEN [h2 EXCEPT !.total = out.total] ELSE h2

\* the handler after one page reply: the next page request, or the score (null
\* when fetchAssociationScore threw) set in associationByKey and the loop resumed
pageReplied(h, route, reply) ==
  LET out == pageOutcome(h, reply)
      id == h.uniqueTargetEnsemblIds[h.fetchPos]
      key == associationKey(h.indicationId, id)
      h0 == settle(h, IF reply.kind = "ok" THEN "ok" ELSE "error")
      h1 == [h0 EXCEPT !.pages = Append(@, pageSeen(h, reply))]
  IN  IF out.kind = "next"
      THEN issue([h1 EXCEPT !.index = h.index + 1, !.total = out.total],
                 "fetch", [ensemblId |-> id, index |-> h.index + 1], "fetch")
      ELSE fetchLoop([h1 EXCEPT !.associationByKey = (key :> out.score) @@ h.associationByKey,
                                !.index = 0, !.total = 0],
                     route, h.fetchPos + 1)

\* one page request of fetchAssociationScore answers
FetchPageReturn(p) ==
  /\ handler[p].pc = "fetch"
  /\ \E reply \in PageRepliesOf(workload) :
       /\ pageOutcome(handler[p], reply).kind = "next" => handler[p].index + 1 < MaxPages
       /\ handler' = [handler EXCEPT ![p] = pageReplied(@, deploy.route, reply)]
  /\ UNCHANGED <<store, deploy, workload, parser, fetcher>>

\* faulty variant: the rows are inserted one by one, and the second insert can fail
insertOutcomes_RowByRow(rows) ==
  {[error |-> TRUE, written |-> {}], [error |-> FALSE, written |-> Range(rows)]}
    \cup (IF Len(rows) > 1 THEN {[error |-> TRUE, written |-> {rows[1]}]} ELSE {})

\* what one insert of rows can do: fail and write nothing, or write every row
insertOutcomes(rows) ==
  {[error |-> TRUE, written |-> {}], [error |-> FALSE, written |-> Range(rows)]}

\* from the insert's result to the response
insertReplied(h, error) ==
  IF error THEN respond(settle(h, "error"), 500, "insert", Null)
  ELSE respond(settle(h, "ok"), 200, "", Some(summaryOf(h.rowsToInsert)))

\* faulty variant: the insert replaces the stored rows that have the input hash of
\* a written row
insertInto_Upsert(table, written) ==
  {r \in table : \A w \in written : IsNull(w.input_hash) \/ w.input_hash # r.input_hash}
    \cup written

\* the table after .insert(rowsToInsert) has written rows: they are added
insertInto(table, written) == table \cup written

\* the insert answers
InsertReturn(p) ==
  /\ handler[p].pc = "insert"
  /\ \E out \in insertOutcomes(handler[p].rowsToInsert) :
       /\ store' = insertInto(store, out.written)
       /\ handler' = [handler EXCEPT ![p] = insertReplied(@, out.error)]
  /\ UNCHANGED <<deploy, workload, parser, fetcher>>

\* the caller aborts the request of a submission in progress: request.signal
\* fires; no code of the handler listens to it
CallerAbort(p) ==
  /\ workload = "abort"
  /\ handler[p].pc \notin {"idle", "done"}
  /\ ~handler[p].aborted
  /\ handler' = [handler EXCEPT ![p].aborted = TRUE]
  /\ UNCHANGED <<store, deploy, workload, parser, fetcher>>

Next ==
  \E p \in Procs :
    \/ Start(p)
    \/ CallerAbort(p)
    \/ GetUserReturn(p)
    \/ LookupReturn(p)
    \/ DedupReturn(p)
    \/ AssocReturn(p)
    \/ FetchPageReturn(p)
    \/ InsertReturn(p)

Spec == Init /\ [][Next]_vars

\* ------------------------------------------------------- fetchAssociationScore alone
\* One call of fetchAssociationScore against a ranking service that answers every
\* page request and may report any total on any page. In such a call index and
\* total grow without bound, and the loop reads them only through the difference
\* total - index * OPENTARGETS_PAGE_SIZE: fetcher.ahead is that difference, and a
\* reply carries its count as the rows it reports beyond the pages already asked.
FetcherRowSets ==
  PageRowSets
    \cup {<<[disease |-> Null, score |-> Some(1)]>>,
          <<[disease |-> Some(STR_EFO_OTHER), score |-> Null],
            [disease |-> Null, score |-> Some(1)]>>}
FetcherCounts ==
  {Null} \cup {Some(k * OPENTARGETS_PAGE_SIZE + r) : k \in 0..3, r \in {0, 1}}
FetcherReplies ==
  {[kind |-> "throw", rows |-> <<>>, count |-> Null],
   [kind |-> "nonok", rows |-> <<>>, count |-> Null]}
    \cup {[kind |-> "ok", rows |-> rs, count |-> c] : rs \in FetcherRowSets, c \in FetcherCounts}

\* fetchAssociationScore after one page reply, index and total taken relative to
\* the pages already asked
fetcherReplied(f, reply) ==
  LET out == pageOutcome([index |-> 0, total |-> f.ahead, indicationId |-> f.indicationId],
                         reply)
  IN  IF out.kind = "next"
      THEN [f EXCEPT !.ahead = out.total - OPENTARGETS_PAGE_SIZE, !.rows = reply.rows]
      ELSE IF out.kind = "return"
      THEN [f EXCEPT !.pc = "returned", !.ahead = out.total - OPENTARGETS_PAGE_SIZE,
                     !.rows = reply.rows, !.result = out.score]
      ELSE [f EXCEPT !.pc = "threw"]

FetchInit ==
  /\ handler = [p \in Procs |-> IdleHandler(p)]
  /\ store = {}
  /\ deploy = [env |-> [supabaseUrl |-> "url", supabaseServiceKey |-> "key",
                          modelVersion |-> STR_V1],
               route |-> "enrich"]
  /\ workload = "one"
  /\ parser = IdleParser
  /\ fetcher \in {[IdleFetcher EXCEPT !.targetEnsemblId = id, !.indicationId = ind] :
                    id \in {STR_ENSG1, STR_ENSG7}, ind \in {STR_EFO, STR_EFO_OTHER}}

\* fetchAssociationScore is called: index = 0, total = 0, the first page is asked
FetchCall ==
  /\ fetcher.pc = "idle"
  /\ fetcher' = [fetcher EXCEPT !.pc = "page"]
  /\ UNCHANGED <<handler, store, deploy, workload, parser>>

\* the ranking service answers the page request
FetchPageAnswer ==
  /\ fetcher.pc = "page"
  /\ \E reply \in FetcherReplies : fetcher' = fetcherReplied(fetcher, reply)
  /\ UNCHANGED <<handler, store, deploy, workload, parser>>

FetchNext == FetchCall \/ FetchPageAnswer

\* every page request is answered, and the function runs on when it is
FetchSpec == FetchInit /\ [][FetchNext]_vars /\ WF_vars(FetchNext)

\* ------------------------------------------------------- the claims
HasWarning(pair, w) == \E i \in 1..Len(pair.warnings) : pair.warnings[i] = w
Issued(h, kinds) == \E i \in 1..Len(h.requests) : h.requests[i].kind \in kinds
\* the handler has built rowsToInsert and sent the insert
InsertBuilt(h) == Issued(h, {"insert"})
\* the handler has run the pair loop
AfterPairLoop(h) == Issued(h, {"dedup", "assoc", "fetch", "insert"})
\* the handler has completed the dedup loop without an error
AfterDedupLoop(h) == Issued(h, {"assoc", "fetch", "insert"})
\* the rows of the store that handler p inserted
RowsOf(p) == {r \in store : r.id[1] = p}
DoneHit(h, pair) ==
  /\ pair.warnings = <<>>
  /\ ~IsNull(pair.input_hash)
  /\ Get(pair.input_hash) \in DOMAIN h.doneByHash

\* C1: rowsToInsert holds one record per candidate, in candidate order, and the
\* record's status follows from the candidate alone: done (prior affinity values
\* copied, warnings = [previous_result_available]) when it has no warning and
\* doneByHash has its hash; failed (affinity null, its warnings) when it has a
\* warning; queued (affinity null, warnings null) otherwise.  No record, built or
\* stored, has status running.
C1_StatusDetermined ==
  /\ \A r \in store : r.status \in {"queued", "done", "failed"}
  /\ \A p \in Procs : InsertBuilt(handler[p]) =>
       LET h == handler[p] IN
       /\ Len(h.rowsToInsert) = Len(h.pairs)
       /\ \A k \in 1..Len(h.pairs) :
            LET pair == h.pairs[k]
                row == h.rowsToInsert[k]
            IN  /\ row.smiles = pair.smiles
                /\ row.sequence = pair.sequence
                /\ row.input_hash = pair.input_hash
                /\ row.status \in {"queued", "done", "failed"}
                /\ DoneHit(h, pair) =>
                     /\ row.status = "done"
                     /\ row.affinity_value = h.doneByHash[Get(pair.input_hash)].affinity_value
                     /\ row.affinity_prob = h.doneByHash[Get(pair.input_hash)].affinity_prob
                     /\ row.warnings = Some(<<WARNING_PREVIOUS_RESULT>>)
                /\ pair.warnings # <<>> =>
                     /\ row.status = "failed"
                     /\ IsNull(row.affinity_value) /\ IsNull(row.affinity_prob)
                     /\ row.warnings = Some(pair.warnings)
                /\ (pair.warnings = <<>> /\ ~DoneHit(h, pair)) =>
                     /\ row.status = "queued"
                     /\ IsNull(row.affinity_value) /\ IsNull(row.affinity_prob)
                     /\ IsNull(row.warnings)

\* C1 witness: one submission has built a done, a failed and a queued record
C1_Witness ==
  \E p \in Procs :
    /\ InsertBuilt(handler[p])
    /\ \E i, j, k \in 1..Len(handler[p].rowsToInsert) :
         /\ handler[p].rowsToInsert[i].status = "done"
         /\ ~IsNull(handler[p].rowsToInsert[i].affinity_value)
         /\ handler[p].rowsToInsert[j].status = "failed"
         /\ handler[p].rowsToInsert[k].status = "queued"

\* C2: once a submission has passed validation with m ligand rows and n target
\* rows, pairs has exactly m*n elements and element k (from 0) pairs ligand
\* k div n with target k mod n.
C2_CrossProduct ==
  \A p \in Procs : AfterPairLoop(handler[p]) =>
    LET h == handler[p]
        m == Len(h.ligands)
        n == Len(h.targets)
    IN  /\ m >= 1 /\ n >= 1
        /\ Len(h.pairs) = m * n
        /\ \A k \in 0..(m * n - 1) :
             LET pair == h.pairs[k + 1]
                 ligand == h.ligands[(k \div n) + 1]
                 target == h.targets[(k % n) + 1]
             IN  /\ pair.smiles = ligand.smiles
                 /\ pair.ligand_name = TrimOrNull(ligand.ligandName)
                 /\ pair.sequence = target.sequence
                 /\ pair.gene_name = TrimOrNull(target.geneName)
                 /\ pair.target_ensembl_id = target.targetEnsemblId

\* C2 witness: a 2 x 2 submission of two different ligands and two different targets
C2_Witness ==
  \E p \in Procs :
    /\ AfterPairLoop(handler[p])
    /\ Len(handler[p].ligands) = 2 /\ Len(handler[p].targets) = 2
    /\ handler[p].ligands[1] # handler[p].ligands[2]
    /\ handler[p].targets[1].sequence # handler[p].targets[2].sequence

\* C3: in a 200 response, summary.total is the number of records handed to the
\* insert and is m*n; queued, done and failed count the submission's stored
\* records of that status and sum to total; every candidate with a warning has
\* its failed record in the store.
C3_SummaryCounts ==
  \A p \in Procs : handler[p].response.status = 200 =>
    LET h == handler[p]
        s == Get(h.response.summary)
        mine == RowsOf(p)
    IN  /\ ~IsNull(h.response.summary)
        /\ s.total = Len(h.rowsToInsert)
        /\ s.total = Len(h.ligands) * Len(h.targets)
        /\ s.total = Cardinality(mine)
        /\ s.queued = Cardinality({r \in mine : r.status = "queued"})
        /\ s.done = Cardinality({r \in mine : r.status = "done"})
        /\ s.failed = Cardinality({r \in mine : r.status = "failed"})
        /\ s.queued + s.done + s.failed = s.total
        /\ \A k \in 1..Len(h.pairs) : h.pairs[k].warnings # <<>> =>
             \E r \in mine : r.id = <<p, k>> /\ r.status = "failed"
                               /\ r.smiles = h.pairs[k].smiles
                               /\ r.sequence = h.pairs[k].sequence

\* C3 witness: a 200 response that counts a failed and a queued record
C3_Witness ==
  \E p \in Procs :
    /\ handler[p].response.status = 200
    /\ Get(handler[p].response.summary).failed >= 1
    /\ Get(handler[p].response.summary).queued >= 1

RequestsFor(h, kind) == {i \in 1..Len(h.requests) : h.requests[i].kind = kind}
\* a done row of the store with the pair's hash
StoredDone(pair) ==
  {r \in store : r.status = "done" /\ ~IsNull(pair.input_hash)
                 /\ r.input_hash = pair.input_hash}
\* the lookup sent the pair's gene symbol; a page request was sent for its target
LookupSent(h, pair) ==
  \E i \in RequestsFor(h, "lookup") :
    ~IsNull(pair.gene_name) /\ Get(pair.gene_name) \in Range(h.requests[i].arg)
FetchSent(h, pair) ==
  \E i \in RequestsFor(h, "fetch") :
    ~IsNull(pair.target_ensembl_id)
    /\ h.requests[i].arg.ensemblId = Get(pair.target_ensembl_id)
\* a row with a score for the pair's target under the handler's indication
ScoredRows(h, pair) ==
  {r \in store : /\ r.indication_id = Some(h.indicationId)
                 /\ ~IsNull(pair.target_ensembl_id)
                 /\ r.target_ensembl_id = pair.target_ensembl_id
                 /\ ~IsNull(r.association_score)}

\* C4, as claimed: for a warning-free pair whose hash has a done row in the
\* store, the record is a done copy and the submission sends no identifier
\* lookup for the pair's gene symbol and no ranking request for its target.
C4_AsClaimed ==
  \A p \in Procs : InsertBuilt(handler[p]) =>
    \A k \in 1..Len(handler[p].pairs) :
      LET h == handler[p]
          pair == h.pairs[k]
      IN  (pair.warnings = <<>> /\ StoredDone(pair) # {}) =>
            /\ h.rowsToInsert[k].status = "done"
            /\ ~LookupSent(h, pair)
            /\ ~FetchSent(h, pair)

\* C4, amended: for a warning-free pair whose hash has a done row in the store,
\* the dedup query finds it and the record is a done copy of a stored done row
\* (warnings = [previous_result_available]).  The match does not decide the
\* enrichment calls: the handler without enrichment sends none; the enrichment
\* handler has sent the lookup with the pair's gene symbol exactly when the
\* symbol is not a canonical identifier, sends no ranking request for a target
\* that had a scored row before the submission, and sends one for a target
\* with no scored row of another submission.
C4_DoneCopied ==
  \A p \in Procs : AfterDedupLoop(handler[p]) =>
    \A k \in 1..Len(handler[p].pairs) :
      LET h == handler[p]
          pair == h.pairs[k]
      IN  (pair.warnings = <<>> /\ StoredDone(pair) # {}) =>
            /\ DoneHit(h, pair)
            /\ deploy.route = "plain" => ~Issued(h, {"lookup", "fetch"})
            /\ deploy.route = "enrich" =>
                 (LookupSent(h, pair) <=>
                    (~IsNull(pair.gene_name)
                     /\ IsNull(normalizeEnsemblId(Get(pair.gene_name)))))
            /\ InsertBuilt(h) =>
                 LET row == h.rowsToInsert[k] IN
                 /\ row.status = "done"
                 /\ row.warnings = Some(<<WARNING_PREVIOUS_RESULT>>)
                 /\ \E r \in StoredDone(pair) :
                      /\ row.affinity_value = r.affinity_value
                      /\ row.affinity_prob = r.affinity_prob
                 /\ (\E r \in ScoredRows(h, pair) : r.id[1] = 0) => ~FetchSent(h, pair)
                 /\ (/\ ~IsNull(pair.target_ensembl_id)
                     /\ \A r \in ScoredRows(h, pair) : r.id[1] = p)
                      => FetchSent(h, pair)

\* C4 witness: the enrichment handler has built a done copy for a pair whose
\* gene symbol it sent to the lookup and for whose target it sent a page request
C4_Witness ==
  \E p \in Procs :
    /\ InsertBuilt(handler[p])
    /\ \E k \in 1..Len(handler[p].pairs) :
         /\ handler[p].rowsToInsert[k].status = "done"
         /\ ~IsNull(handler[p].rowsToInsert[k].affinity_value)
         /\ StoredDone(handler[p].pairs[k]) # {}
         /\ LookupSent(handler[p], handler[p].pairs[k])
         /\ FetchSent(handler[p], handler[p].pairs[k])

ConfigOk(env) ==
  env.supabaseUrl # "" /\ env.supabaseServiceKey # "" /\ env.modelVersion # EmptyStr

\* C5: the checks run in the order configuration, authentication, validation.
\* With a setting missing every response is the configuration 500, sent before
\* any call (the token verification included).  A 401 or a 400 comes from a
\* configured deployment; a 400 comes after a successful token verification;
\* with either, the handler has sent no call but the token verification and
\* the store has no row of the submission.
C5_CheckOrder ==
  \A p \in Procs :
    LET h == handler[p]
        r == h.response
    IN  /\ (~ConfigOk(deploy.env) /\ h.pc = "done") =>
             (r.status = 500 /\ r.error = "config")
        /\ r.error = "config" => (r.status = 500 /\ h.requests = <<>>)
        /\ r.status \in {401, 400} =>
             /\ ConfigOk(deploy.env)
             /\ ~Issued(h, {"lookup", "dedup", "assoc", "fetch", "insert"})
             /\ RowsOf(p) = {}
        /\ r.status = 401 =>
             (h.requests = <<>> \/ h.requests = <<[kind |-> "getUser", arg |-> h.token,
                                                   result |-> "error"]>>)
        /\ r.status = 400 =>
             /\ ~IsNull(h.userId)
             /\ h.requests = <<[kind |-> "getUser", arg |-> h.token, result |-> "ok"]>>

\* C5 witness: one request was refused with 401 by the token verification,
\* another with 400 by the validation
C5_Witness ==
  \E p, q \in Procs :
    /\ handler[p].response.status = 401 /\ Issued(handler[p], {"getUser"})
    /\ handler[q].response.status = 400

\* C6: a dedup or association-cache query that returned an error is the
\* handler's last call: the response is 500 and no insert was sent; an insert
\* that returned an error gives 500 and no summary; a summary is only in a 200
\* response, sent after the insert succeeded and with every record stored.
C6_StoreFailureFatal ==
  \A p \in Procs :
    LET h == handler[p]
        r == h.response
    IN  /\ \A i \in 1..Len(h.requests) :
             (h.requests[i].kind \in {"dedup", "assoc"} /\ h.requests[i].result = "error") =>
               /\ i = Len(h.requests)
               /\ h.pc = "done" /\ r.status = 500 /\ IsNull(r.summary)
               /\ ~Issued(h, {"insert"})
               /\ RowsOf(p) = {}
        /\ \A i \in 1..Len(h.requests) :
             (h.requests[i].kind = "insert" /\ h.requests[i].result = "error") =>
               (h.pc = "done" /\ r.status = 500 /\ IsNull(r.summary))
        /\ ~IsNull(r.summary) => r.status = 200
        /\ r.status = 200 =>
             /\ ~IsNull(r.summary)
             /\ h.requests[Len(h.requests)] =
                  [kind |-> "insert", arg |-> Len(h.pairs), result |-> "ok"]
             /\ Range(h.rowsToInsert) \subseteq store

\* C6 witness: one submission ended on a failed dedup query, another on a
\* failed insert
C6_Witness ==
  \E p, q \in Procs :
    /\ handler[p].response.error = "dedup"
    /\ handler[p].requests[Len(handler[p].requests)].result = "error"
    /\ handler[q].response.error = "insert"

\* C7: the store holds either none of a submission's records or all m*n of
\* them, and holds them only after the insert succeeded.
C7_AllOrNothing ==
  \A p \in Procs :
    \/ RowsOf(p) = {}
    \/ /\ handler[p].response.status = 200
       /\ RowsOf(p) = Range(handler[p].rowsToInsert)
       /\ Cardinality(RowsOf(p)) = Len(handler[p].ligands) * Len(handler[p].targets)

\* C7 witness: a submission of four pairs is stored whole
C7_Witness == \E p \in Procs : Cardinality(RowsOf(p)) >= 4

\* C8: nothing serializes two submissions on a hash: whenever two handlers have
\* both built their records and share a warning-free hash with no done row in
\* the store, each has a queued record for it, whatever the other has done;
\* once both have answered 200 the store holds both queued records.
C8_NoLockOnHash ==
  \A p, q \in Procs :
    (p # q /\ InsertBuilt(handler[p]) /\ InsertBuilt(handler[q])) =>
      \A i \in 1..Len(handler[p].pairs), j \in 1..Len(handler[q].pairs) :
        LET a == handler[p].pairs[i]
            b == handler[q].pairs[j]
        IN  (/\ a.warnings = <<>> /\ b.warnings = <<>>
             /\ a.input_hash = b.input_hash
             /\ StoredDone(a) = {}) =>
              /\ handler[p].rowsToInsert[i].status = "queued"
              /\ handler[q].rowsToInsert[j].status = "queued"
              /\ (handler[p].response.status = 200 /\ handler[q].response.status = 200) =>
                   \E r1, r2 \in store :
                     /\ r1.id = <<p, i>> /\ r2.id = <<q, j>>
                     /\ r1.status = "queued" /\ r2.status = "queued"
                     /\ r1.input_hash = r2.input_hash

\* C8 witness: the store holds two queued records of different submissions with
\* one inputHash
C8_Witness ==
  \E r1, r2 \in store :
    /\ r1.id[1] # r2.id[1]
    /\ r1.status = "queued" /\ r2.status = "queued"
    /\ ~IsNull(r1.input_hash)
    /\ r1.input_hash = r2.input_hash

\* C9: a pair whose trimmed sequence is empty has sequence_missing and not
\* sequence_too_long; one whose trimmed sequence is longer than 1280 has
\* sequence_too_long and not sequence_missing; one of 1 to 1280 characters has
\* neither; invalid_smiles is there iff the trimmed smiles is empty.
C9_WarningRules ==
  \A p \in Procs : \A k \in 1..Len(handler[p].pairs) :
    LET pair == handler[p].pairs[k]
        n == StrLen(Trim(pair.sequence))
    IN  /\ ~(HasWarning(pair, WARNING_SEQUENCE_MISSING)
             /\ HasWarning(pair, WARNING_SEQUENCE_TOO_LONG))
        /\ n = 0 => HasWarning(pair, WARNING_SEQUENCE_MISSING)
        /\ n > 1280 => HasWarning(pair, WARNING_SEQUENCE_TOO_LONG)
        /\ (n >= 1 /\ n <= 1280) =>
             /\ ~HasWarning(pair, WARNING_SEQUENCE_MISSING)
             /\ ~HasWarning(pair, WARNING_SEQUENCE_TOO_LONG)
        /\ HasWarning(pair, WARNING_INVALID_SMILES) <=> StrLen(Trim(pair.smiles)) = 0

\* C9 witness: one submission has a pair of a 1280-character sequence with no
\* warning and a pair of a 1281-character sequence
C9_Witness ==
  \E p \in Procs : \E i, j \in 1..Len(handler[p].pairs) :
    /\ StrLen(handler[p].pairs[i].sequence) = 1280
    /\ handler[p].pairs[i].warnings = <<>>
    /\ StrLen(handler[p].pairs[j].sequence) = 1281
    /\ HasWarning(handler[p].pairs[j], WARNING_SEQUENCE_TOO_LONG)

HashPresentIff(x) ==
  ~IsNull(x.input_hash) <=> (Trim(x.smiles) # EmptyStr /\ Trim(x.sequence) # EmptyStr)

\* C10: a candidate, a built record and a stored record have an inputHash iff
\* the trimmed smiles and the trimmed sequence are both non-empty: a pair with
\* sequence_too_long has one, a pair with invalid_smiles or sequence_missing
\* has none.
C10_HashPresence ==
  /\ \A r \in store : HashPresentIff(r)
  /\ \A p \in Procs :
       /\ \A k \in 1..Len(handler[p].rowsToInsert) : HashPresentIff(handler[p].rowsToInsert[k])
       /\ \A k \in 1..Len(handler[p].pairs) :
            LET pair == handler[p].pairs[k] IN
            /\ HashPresentIff(pair)
            /\ (HasWarning(pair, WARNING_SEQUENCE_TOO_LONG)
                /\ ~HasWarning(pair, WARNING_INVALID_SMILES)) => ~IsNull(pair.input_hash)
            /\ (HasWarning(pair, WARNING_INVALID_SMILES)
                \/ HasWarning(pair, WARNING_SEQUENCE_MISSING)) => IsNull(pair.input_hash)

\* C10 witness: the store holds a too-long record with a hash and a record
\* without a hash
C10_Witness ==
  \E r1, r2 \in store :
    /\ r1.warnings = Some(<<WARNING_SEQUENCE_TOO_LONG>>) /\ ~IsNull(r1.input_hash)
    /\ r2.id[1] # 0 /\ IsNull(r2.input_hash)

\* C11: two candidates of equal smiles and sequence, under the same
\* modelVersion, have equal hashes, whatever their names, submission or
\* position; a candidate and a stored record of equal smiles and sequence but
\* another modelVersion have different hashes; and no done record of another
\* modelVersion is matched by the dedup of a candidate.
C11_HashByVersion ==
  /\ \A p, q \in Procs :
       \A i \in 1..Len(handler[p].pairs), j \in 1..Len(handler[q].pairs) :
         (/\ handler[p].pairs[i].smiles = handler[q].pairs[j].smiles
          /\ handler[p].pairs[i].sequence = handler[q].pairs[j].sequence)
           => handler[p].pairs[i].input_hash = handler[q].pairs[j].input_hash
  /\ \A p \in Procs : \A k \in 1..Len(handler[p].pairs) : \A r \in store :
       LET pair == handler[p].pairs[k] IN
       /\ (/\ r.smiles = pair.smiles /\ r.sequence = pair.sequence
           /\ r.model_version # handler[p].modelVersion
           /\ ~IsNull(pair.input_hash))
            => r.input_hash # pair.input_hash
       /\ (/\ AfterDedupLoop(handler[p]) /\ DoneHit(handler[p], pair)
           /\ r.status = "done" /\ r.input_hash = pair.input_hash)
            => r.model_version = handler[p].modelVersion

\* a 500 of the handler comes from a store call that returned an error
StoreFailure(h) ==
  /\ h.response.status = 500
  /\ h.requests # <<>>
  /\ h.requests[Len(h.requests)].kind \in {"dedup", "assoc", "insert"}
  /\ h.requests[Len(h.requests)].result = "error"

\* C12: after a failed lookup (rejected, timed out or non-ok) every target
\* whose symbol was in the batch has no identifier and every target whose
\* symbol is a canonical identifier keeps it; the pair loop has run; a response
\* is 200 or the 500 of a failed store call; the m*n records are built with no
\* target identifier and no association score for the batch's targets, and a
\* 200 has stored them all.
C12_LookupFailOpen ==
  \A p \in Procs : \A i \in RequestsFor(handler[p], "lookup") :
    LET h == handler[p]
        batch == Range(h.requests[i].arg)
    IN  h.requests[i].result = "error" =>
          /\ \A t \in 1..Len(h.targets) :
               LET g == Trim(h.targets[t].geneName) IN
               /\ g \in batch => IsNull(h.targets[t].targetEnsemblId)
               /\ (g # EmptyStr /\ g \notin batch) =>
                    h.targets[t].targetEnsemblId = normalizeEnsemblId(g)
          /\ Len(h.pairs) = Len(h.ligands) * Len(h.targets)
          /\ h.pc = "done" => (h.response.status = 200 \/ StoreFailure(h))
          /\ InsertBuilt(h) =>
               /\ Len(h.rowsToInsert) = Len(h.ligands) * Len(h.targets)
               /\ \A k \in 1..Len(h.pairs) :
                    (~IsNull(h.pairs[k].gene_name) /\ Get(h.pairs[k].gene_name) \in batch) =>
                      /\ IsNull(h.rowsToInsert[k].target_ensembl_id)
                      /\ IsNull(h.rowsToInsert[k].association_score)
          /\ h.response.status = 200 => Range(h.rowsToInsert) \subseteq store

\* C12 witness: after a failed lookup a submission with an unresolved target and
\* a target of a canonical identifier was answered 200
C12_Witness ==
  \E p \in Procs :
    /\ \E i \in RequestsFor(handler[p], "lookup") : handler[p].requests[i].result = "error"
    /\ handler[p].response.status = 200
    /\ \E t, u \in 1..Len(handler[p].targets) :
         /\ Trim(handler[p].targets[t].geneName) # EmptyStr
         /\ IsNull(handler[p].targets[t].targetEnsemblId)
         /\ ~IsNull(handler[p].targets[u].targetEnsemblId)

\* the pages answered for target id, and the page requests sent for it
PagesOf(h, id) == {n \in 1..Len(h.pages) : h.pages[n].ensemblId = id}
FetchesOf(h, id) == {i \in RequestsFor(h, "fetch") : h.requests[i].arg.ensemblId = id}

\* C13: a page request that failed is the last page request for its target in
\* the submission; the target's score is null, in the cache and on every record
\* built for it; a response is 200 or the 500 of a failed store call.
C13_PageFailureIsNull ==
  \A p \in Procs : \A i \in RequestsFor(handler[p], "fetch") :
    LET h == handler[p]
        id == h.requests[i].arg.ensemblId
        key == associationKey(h.indicationId, id)
    IN  h.requests[i].result = "error" =>
          /\ \A j \in FetchesOf(h, id) : j <= i
          /\ key \in DOMAIN h.associationByKey /\ IsNull(h.associationByKey[key])
          /\ h.pc = "done" => (h.response.status = 200 \/ StoreFailure(h))
          /\ InsertBuilt(h) =>
               \A k \in 1..Len(h.pairs) :
                 h.pairs[k].target_ensembl_id = Some(id) =>
                   IsNull(h.rowsToInsert[k].association_score)

\* C13 witness: the second page request of a target failed, a page request of
\* another target followed, and the submission was answered 200
C13_Witness ==
  \E p \in Procs : \E i, j \in RequestsFor(handler[p], "fetch") :
    /\ handler[p].requests[i].result = "error"
    /\ handler[p].requests[i].arg.index = 1
    /\ i < j
    /\ handler[p].requests[j].arg.ensemblId # handler[p].requests[i].arg.ensemblId
    /\ handler[p].response.status = 200

\* the rows of a page that match the indication
MatchesOf(h, page) ==
  {i \in 1..Len(page.rows) : page.rows[i].disease = Some(h.indicationId)}

\* C14: a page with a row of the indication is the last page requested for its
\* target: no page request of a later index, none repeated; the score kept for
\* the target is the score of the first such row.
C14_StopsAtFirstMatch ==
  \A p \in Procs : \A n \in 1..Len(handler[p].pages) :
    LET h == handler[p]
        page == h.pages[n]
        key == associationKey(h.indicationId, page.ensemblId)
    IN  (page.ok /\ MatchesOf(h, page) # {}) =>
          /\ \A i \in FetchesOf(h, page.ensemblId) : h.requests[i].arg.index <= page.index
          /\ Cardinality(FetchesOf(h, page.ensemblId)) = page.index + 1
          /\ \A m \in PagesOf(h, page.ensemblId) : m <= n
          /\ key \in DOMAIN h.associationByKey
          /\ \E i \in MatchesOf(h, page) :
               /\ \A j \in MatchesOf(h, page) : i <= j
               /\ h.associationByKey[key] = page.rows[i].score

\* C14 witness: the second page of a target had the indication's row after
\* another row, and its score is kept
C14_Witness ==
  \E p \in Procs : \E n \in 1..Len(handler[p].pages) :
    /\ handler[p].pages[n].ok
    /\ handler[p].pages[n].index = 1
    /\ Len(handler[p].pages[n].rows) = 2
    /\ MatchesOf(handler[p], handler[p].pages[n]) = {2}
    /\ handler[p].associationByKey[
         associationKey(handler[p].indicationId, handler[p].pages[n].ensemblId)] = Some(5)

\* the scores the store holds for target id under the handler's indication
StoredScores(h, id) ==
  {r.association_score :
     r \in {x \in store : /\ x.indication_id = Some(h.indicationId)
                          /\ x.target_ensembl_id = Some(id)
                          /\ ~IsNull(x.association_score)}}
\* this step ends an association cache query of handler p without an error
CacheAnswered(p) ==
  /\ handler[p].pc = "assoc"
  /\ handler'[p].requests[Len(handler[p].requests)].result = "ok"

\* C16: in every step: when an association cache query is answered, each
\* target of its batch for which the store holds a scored row of the indication
\* (of any status, submission or user) gets one of the stored scores and no
\* page request; a score once known for a target is kept and no page request
\* is sent for the target after; the records are built with the known scores.
C16_DurableCache ==
  [][\A p \in Procs :
       LET h == handler[p]
           h2 == handler'[p]
       IN  /\ CacheAnswered(p) =>
                \A id \in Range(h.requests[Len(h.requests)].arg) :
                  StoredScores(h, id) # {} =>
                    /\ associationKey(h.indicationId, id) \in DOMAIN h2.associationByKey
                    /\ h2.associationByKey[associationKey(h.indicationId, id)]
                         \in StoredScores(h, id)
                    /\ FetchesOf(h2, id) = {}
           /\ \A id \in Range(h.uniqueTargetEnsemblIds) :
                associationKey(h.indicationId, id) \in DOMAIN h.associationByKey =>
                  /\ associationKey(h.indicationId, id) \in DOMAIN h2.associationByKey
                  /\ h2.associationByKey[associationKey(h.indicationId, id)]
                       = h.associationByKey[associationKey(h.indicationId, id)]
                  /\ FetchesOf(h2, id) = FetchesOf(h, id)
           /\ (InsertBuilt(h2) /\ deploy.route = "enrich") =>
                \A k \in 1..Len(h2.pairs) :
                  ~IsNull(h2.pairs[k].target_ensembl_id) =>
                    h2.rowsToInsert[k].association_score =
                      h2.associationByKey[
                        associationKey(h2.indicationId, Get(h2.pairs[k].target_ensembl_id))]
    ]_vars

\* C16 witness: a submission has built a record with the score of a queued row
\* that another submission stored, and has sent no page request for its target
C16_Witness ==
  \E p, q \in Procs : \E r \in RowsOf(q) :
    /\ p # q
    /\ r.status = "queued"
    /\ r.target_ensembl_id = Some(STR_ENSG7)
    /\ ~IsNull(r.association_score)
    /\ InsertBuilt(handler[p])
    /\ FetchesOf(handler[p], STR_ENSG7) = {}
    /\ \E k \in 1..Len(handler[p].rowsToInsert) :
         /\ handler[p].rowsToInsert[k].target_ensembl_id = Some(STR_ENSG7)
         /\ handler[p].rowsToInsert[k].association_score = r.association_score

\* the calls of fetchAssociationScore for target id: its first page requests
CallsOf(h, id) == {i \in FetchesOf(h, id) : h.requests[i].arg.index = 0}
NonNullIds(h) ==
  {Get(h.pairs[k].target_ensembl_id) :
     k \in {j \in 1..Len(h.pairs) : ~IsNull(h.pairs[j].target_ensembl_id)}}

\* C17: every page request is for a non-null target identifier of the
\* submission's pairs; fetchAssociationScore is called at most once per
\* identifier; when the records are built it has been called once for every
\* identifier but those with a score cached from the store, for which it was
\* not called; an identifier with a scored row from before the submissions is
\* never fetched, one with no scored row of another submission is.
C17_OneFetchPerTarget ==
  \A p \in Procs :
    LET h == handler[p] IN
    /\ \A i \in RequestsFor(h, "fetch") : h.requests[i].arg.ensemblId \in NonNullIds(h)
    /\ \A id \in NonNullIds(h) :
         /\ Cardinality(CallsOf(h, id)) <= 1
         /\ FetchesOf(h, id) # {} => CallsOf(h, id) # {}
         /\ (\E r \in store : /\ r.id[1] = 0
                              /\ r.indication_id = Some(h.indicationId)
                              /\ r.target_ensembl_id = Some(id)
                              /\ ~IsNull(r.association_score))
              => CallsOf(h, id) = {}
         /\ InsertBuilt(h) =>
              /\ CallsOf(h, id) = {} =>
                   h.associationByKey[associationKey(h.indicationId, id)]
                     \in StoredScores(h, id)
              /\ (\A r \in store : (/\ r.indication_id = Some(h.indicationId)
                                    /\ r.target_ensembl_id = Some(id)
                                    /\ ~IsNull(r.association_score)) => r.id[1] = p)
                   => Cardinality(CallsOf(h, id)) = 1

\* C17 witness: two pairs share one target identifier, fetched by one call, and
\* another target of the submission has no identifier
C17_Witness ==
  \E p \in Procs :
    /\ InsertBuilt(handler[p])
    /\ Cardinality({k \in 1..Len(handler[p].pairs) :
                      handler[p].pairs[k].target_ensembl_id = Some(STR_ENSG7)}) = 2
    /\ \E k \in 1..Len(handler[p].pairs) : IsNull(handler[p].pairs[k].target_ensembl_id)
    /\ Cardinality(CallsOf(handler[p], STR_ENSG7)) = 1

\* the trimmed non-empty gene symbols of the targets
SymbolsOf(h) ==
  {Trim(h.targets[t].geneName) : t \in {u \in 1..Len(h.targets) :
                                         Trim(h.targets[u].geneName) # EmptyStr}}
Canonical(s) == ~IsNull(normalizeEnsemblId(s))

\* C18: a submission sends at most one lookup; its batch is, without
\* repetition, the non-empty trimmed symbols that are not canonical
\* identifiers, and is not empty; once the pair loop has run, a target whose
\* symbol is canonical has the upper-cased, version-stripped symbol as its
\* identifier, and no lookup was sent iff no symbol was left for it; the
\* handler without enrichment sends none.
C18_OneBatchedLookup ==
  \A p \in Procs :
    LET h == handler[p] IN
    /\ Cardinality(RequestsFor(h, "lookup")) <= 1
    /\ deploy.route = "plain" => RequestsFor(h, "lookup") = {}
    /\ \A i \in RequestsFor(h, "lookup") :
         LET batch == h.requests[i].arg IN
         /\ batch # <<>>
         /\ \A a, b \in 1..Len(batch) : batch[a] = batch[b] => a = b
         /\ Range(batch) = {s \in SymbolsOf(h) : ~Canonical(s)}
         /\ \A a \in 1..Len(batch) : ~Canonical(batch[a])
    /\ (AfterPairLoop(h) /\ deploy.route = "enrich") =>
         /\ RequestsFor(h, "lookup") = {} <=> \A s \in SymbolsOf(h) : Canonical(s)
         /\ \A t \in 1..Len(h.targets) :
              LET g == Trim(h.targets[t].geneName) IN
              (g # EmptyStr /\ Canonical(g)) =>
                h.targets[t].targetEnsemblId = Some(BeforeDot(ToUpperCase(g)))

\* C18 witness: the lookup was sent with TP53 alone while another target's
\* symbol ensg1.2 was mapped to ENSG1 without it
C18_Witness ==
  \E p \in Procs : \E i \in RequestsFor(handler[p], "lookup") :
    /\ handler[p].requests[i].arg = <<STR_TP53>>
    /\ AfterPairLoop(handler[p])
    /\ \E t \in 1..Len(handler[p].targets) :
         /\ handler[p].targets[t].geneName = Lit(<<"e","n","s","g","1",".","2">>)
         /\ handler[p].targets[t].targetEnsemblId = Some(STR_ENSG1)

\* the arguments of the requests of one kind, in the order sent
RECURSIVE BatchesIn(_, _)
BatchesIn(reqs, kind) ==
  IF reqs = <<>> THEN <<>>
  ELSE (IF reqs[1].kind = kind THEN <<reqs[1].arg>> ELSE <<>>) \o BatchesIn(Tail(reqs), kind)
RECURSIVE Flatten(_)
Flatten(seqs) == IF seqs = <<>> THEN <<>> ELSE seqs[1] \o Flatten(Tail(seqs))

\* C19: the dedup queries of a submission carry, in order and without overlap,
\* consecutive chunks of the unique candidate hashes: each of 1 to 200 hashes,
\* all but the last of 200; once the loop is complete they cover every hash
\* once, there are ceil(n/200) of them (none for no hash), and doneByHash has
\* an entry for exactly the hashes with a done row in the store.
C19_ChunkedDedup ==
  \A p \in Procs :
    LET h == handler[p]
        hashes == Unique(candidateHashesOf(h.pairs))
        bs == BatchesIn(h.requests, "dedup")
        sent == Flatten(bs)
    IN  /\ \A a, b \in 1..Len(hashes) : hashes[a] = hashes[b] => a = b
        /\ \A b \in 1..Len(bs) :
             /\ Len(bs[b]) >= 1 /\ Len(bs[b]) <= 200
             /\ b < Len(bs) => Len(bs[b]) = 200
        /\ Len(sent) <= Len(hashes) /\ sent = SubSeq(hashes, 1, Len(sent))
        /\ \A i \in RequestsFor(h, "dedup") :
             (\E j \in RequestsFor(h, "dedup") : i < j) => h.requests[i].result = "ok"
        /\ AfterDedupLoop(h) =>
             /\ sent = hashes
             /\ Len(bs) = (Len(hashes) + 199) \div 200
             /\ DOMAIN h.doneByHash =
                  {x \in Range(hashes) :
                     \E r \in store : r.status = "done" /\ r.input_hash = Some(x)}

\* C19 witness: 201 unique hashes went out in a query of 200 and a query of 1,
\* and the done row found by the first query is in the merged result
C19_Witness ==
  \E p \in Procs :
    /\ AfterDedupLoop(handler[p])
    /\ Len(BatchesIn(handler[p].requests, "dedup")) = 2
    /\ Len(BatchesIn(handler[p].requests, "dedup")[1]) = 200
    /\ Len(BatchesIn(handler[p].requests, "dedup")[2]) = 1
    /\ DOMAIN handler[p].doneByHash = {BatchesIn(handler[p].requests, "dedup")[1][1]}

\* C15: a call of fetchAssociationScore whose page requests are all answered
\* comes to an end: after finitely many page requests it has returned (or
\* thrown), whatever rows and totals the ranking service reports.
C15_FetchTerminates == <>(fetcher.pc \in {"returned", "threw"})

\* ------------------------------------------------------- parseCsv alone
\* One call of parseCsv, one step per iteration of its character loop. A text is a
\* sequence of characters, a cell a sequence of characters, a record a sequence
\* of cells.
QUOTE == "\""
BOM == "BOM"

\* String.prototype.trim on a cell: white space and line terminators at both ends
IsWhite(c) == c \in {" ", "\t", "\n", "\r", BOM}
cellTrim(cell) ==
  LET solid == {k \in 1..Len(cell) : ~IsWhite(cell[k])}
  IN  IF solid = {} THEN <<>>
      ELSE SubSeq(cell, CHOOSE k \in solid : \A j \in solid : k <= j,
                        CHOOSE k \in solid : \A j \in solid : j <= k)

\* parseCsv is called with text: the byte order mark is dropped, the locals are set
parseCall(text, written) ==
  [IdleParser EXCEPT !.pc = "scan", !.written = written, !.text = text,
                     !.normalized = IF text # <<>> /\ text[1] = BOM THEN Tail(text) ELSE text]

\* faulty variant: inside quotes every quote character closes the field
scanChar_NoDoubling(ps) ==
  LET char == ps.normalized[ps.i + 1]
      next == IF ps.i + 2 <= Len(ps.normalized) THEN Some(ps.normalized[ps.i + 2]) ELSE Null
      endRecord(skip) ==
        [ps EXCEPT !.rows = Append(@, Append(ps.row, ps.field)), !.row = <<>>,
                   !.field = <<>>, !.i = @ + 1 + skip]
  IN  IF ps.inQuotes
      THEN IF char = QUOTE
           THEN [ps EXCEPT !.inQuotes = FALSE, !.i = @ + 1]
           ELSE [ps EXCEPT !.field = Append(@, char), !.i = @ + 1]
      ELSE IF char = QUOTE THEN [ps EXCEPT !.inQuotes = TRUE, !.i = @ + 1]
      ELSE IF char = "," THEN [ps EXCEPT !.row = Append(@, ps.field), !.field = <<>>,
                                         !.i = @ + 1]
      ELSE IF char = "\n" THEN endRecord(0)
      ELSE IF char = "\r" THEN endRecord(IF next = Some("\n") THEN 1 ELSE 0)
      ELSE [ps EXCEPT !.field = Append(@, char), !.i = @ + 1]

\* faulty variant: a carriage return ends the record and leaves a following line
\* feed to end one more
scanChar_CrThenLf(ps) ==
  LET char == ps.normalized[ps.i + 1]
      next == IF ps.i + 2 <= Len(ps.normalized) THEN Some(ps.normalized[ps.i + 2]) ELSE Null
      endRecord(skip) ==
        [ps EXCEPT !.rows = Append(@, Append(ps.row, ps.field)), !.row = <<>>,
                   !.field = <<>>, !.i = @ + 1 + skip]
  IN  IF ps.inQuotes
      THEN IF char = QUOTE
           THEN IF next = Some(QUOTE)
                THEN [ps EXCEPT !.field = Append(@, QUOTE), !.i = @ + 2]
                ELSE [ps EXCEPT !.inQuotes = FALSE, !.i = @ + 1]
           ELSE [ps EXCEPT !.field = Append(@, char), !.i = @ + 1]
      ELSE IF char = QUOTE THEN [ps EXCEPT !.inQuotes = TRUE, !.i = @ + 1]
      ELSE IF char = "," THEN [ps EXCEPT !.row = Append(@, ps.field), !.field = <<>>,
                                         !.i = @ + 1]
      ELSE IF char \in {"\n", "\r"} THEN endRecord(0)
      ELSE [ps EXCEPT !.field = Append(@, char), !.i = @ + 1]

\* one iteration of the character loop, the loop's i += 1 included
scanChar(ps) ==
  LET char == ps.normalized[ps.i + 1]
      next == IF ps.i + 2 <= Len(ps.normalized) THEN Some(ps.normalized[ps.i + 2]) ELSE Null
      endRecord(skip) ==
        [ps EXCEPT !.rows = Append(@, Append(ps.row, ps.field)), !.row = <<>>,
                   !.field = <<>>, !.i = @ + 1 + skip]
  IN  IF ps.inQuotes
      THEN IF char = QUOTE
           THEN IF next = Some(QUOTE)
                THEN [ps EXCEPT !.field = Append(@, QUOTE), !.i = @ + 2]
                ELSE [ps EXCEPT !.inQuotes = FALSE, !.i = @ + 1]
           ELSE [ps EXCEPT !.field = Append(@, char), !.i = @ + 1]
      ELSE IF char = QUOTE THEN [ps EXCEPT !.inQuotes = TRUE, !.i = @ + 1]
      ELSE IF char = "," THEN [ps EXCEPT !.row = Append(@, ps.field), !.field = <<>>,
                                         !.i = @ + 1]
      ELSE IF char = "\n" THEN endRecord(0)
      ELSE IF char = "\r" THEN endRecord(IF next = Some("\n") THEN 1 ELSE 0)
      ELSE [ps EXCEPT !.field = Append(@, char), !.i = @ + 1]

\* faulty variant: a record is kept when its first cell does not trim to empty
hasContent_FirstCell(line) == Len(line) > 0 /\ cellTrim(line[1]) # <<>>

\* a record that is kept: some cell of it does not trim to empty
hasContent(line) == \E k \in 1..Len(line) : cellTrim(line[k]) # <<>>

\* faulty variant: a text that ends inside a quoted field loses the open field
finish_DropOpen(ps) ==
  IF ps.inQuotes
  THEN [ps EXCEPT !.pc = "done", !.result = [headers |-> <<>>, rows |-> <<>>]]
  ELSE [ps EXCEPT !.pc = "done", !.rows = Append(ps.rows, Append(ps.row, ps.field))]

\* faulty variant: the pending record is flushed only when the current field is
\* not empty
finish_FieldOnly(ps) ==
  LET rows == IF Len(ps.field) > 0
              THEN Append(ps.rows, Append(ps.row, ps.field))
              ELSE ps.rows
      trimmed == SelectSeq(rows, hasContent)
      headers == IF trimmed = <<>> THEN <<>>
                 ELSE [k \in 1..Len(trimmed[1]) |-> cellTrim(trimmed[1][k])]
  IN  [ps EXCEPT !.pc = "done", !.rows = rows,
                 !.row = IF rows = ps.rows THEN ps.row ELSE Append(ps.row, ps.field),
                 !.result = [headers |-> headers,
                             rows |-> IF trimmed = <<>> THEN <<>> ELSE Tail(trimmed)]]

\* after the loop: the last record is flushed, the blank records are dropped, the
\* first record left becomes the headers
finish(ps) ==
  LET rows == IF Len(ps.field) > 0 \/ Len(ps.row) > 0
              THEN Append(ps.rows, Append(ps.row, ps.field))
              ELSE ps.rows
      trimmed == SelectSeq(rows, hasContent)
      headers == IF trimmed = <<>> THEN <<>>
                 ELSE [k \in 1..Len(trimmed[1]) |-> cellTrim(trimmed[1][k])]
  IN  [ps EXCEPT !.pc = "done", !.rows = rows,
                 !.row = IF rows = ps.rows THEN ps.row ELSE Append(ps.row, ps.field),
                 !.result = [headers |-> headers,
                             rows |-> IF trimmed = <<>> THEN <<>> ELSE Tail(trimmed)]]

\* the texts parseCsv is given: delimited files written from a document (a header
\* record and data records of the same width), a field holding a separator, a
\* quote or a line terminator in quotes with its quotes doubled, the records ended
\* by LF or CRLF, the last one ended or not, with or without a byte order mark
MaxCells == 2
Fields ==
  {<<>>, <<"a">>, <<" ", "a">>, <<",">>, <<"a", ",", "b">>, <<QUOTE>>, <<"a", QUOTE>>,
   <<"\n">>, <<"\r">>, <<"a", "\r", "\n">>}
HeaderOf(width) == [k \in 1..width |-> <<IF k = 1 THEN "h" ELSE "k">>]
Documents ==
  UNION {[header : {HeaderOf(w)}, records : [1..n -> [1..w -> Fields]]] :
           <<w, n>> \in {wn \in (1..MaxCells) \X (1..MaxCells) : wn[1] * wn[2] <= MaxCells}}
NeedsQuotes(cell) == \E k \in 1..Len(cell) : cell[k] \in {",", QUOTE, "\n", "\r"}
writeField(cell) ==
  IF NeedsQuotes(cell)
  THEN <<QUOTE>> \o Flatten([k \in 1..Len(cell) |->
                               IF cell[k] = QUOTE THEN <<QUOTE, QUOTE>> ELSE <<cell[k]>>])
                 \o <<QUOTE>>
  ELSE cell
writeRecord(line) ==
  Flatten([k \in 1..Len(line) |->
             IF k = 1 THEN writeField(line[k]) ELSE <<",">> \o writeField(line[k])])
writeText(doc, eol, closed, mark) ==
  LET lines == <<doc.header>> \o doc.records
  IN  (IF mark THEN <<BOM>> ELSE <<>>)
        \o Flatten([k \in 1..Len(lines) |->
                      writeRecord(lines[k])
                        \o (IF k < Len(lines) \/ closed THEN eol ELSE <<>>)])

\* and any text of up to MaxText characters, well formed or not, and two longer ones
MaxText == 5
Chars == {"a", " ", ",", QUOTE, "\n", "\r"}
SampleTexts ==
  {<<" ", "\n", "h", " ", "\n", ",", "\n", " ", "a", "\n", "b">>,
   <<"h", "\r", "\n", QUOTE, "a", ",", "\r", "\n", QUOTE, QUOTE, "b", QUOTE, ",", "c", "\r", "d">>}
Texts == SeqsUpTo(Chars, MaxText) \cup SampleTexts

ParseInit ==
  /\ handler = [p \in Procs |-> IdleHandler(p)]
  /\ store = {}
  /\ deploy = [env |-> [supabaseUrl |-> "url", supabaseServiceKey |-> "key",
                        modelVersion |-> STR_V1],
               route |-> "enrich"]
  /\ workload = "one"
  /\ fetcher = IdleFetcher
  /\ parser \in {parseCall(writeText(doc, eol, closed, mark), Some(doc)) :
                   doc \in Documents, eol \in {<<"\n">>, <<"\r", "\n">>},
                   closed \in BOOLEAN, mark \in BOOLEAN}
                  \cup {parseCall(text, Null) : text \in Texts}

\* one iteration of the loop over the characters
ParseChar ==
  /\ parser.pc = "scan"
  /\ parser.i < Len(parser.normalized)
  /\ parser' = scanChar(parser)
  /\ UNCHANGED <<handler, store, deploy, workload, fetcher>>

\* the loop has ended: parseCsv returns
ParseEnd ==
  /\ parser.pc = "scan"
  /\ parser.i >= Len(parser.normalized)
  /\ parser' = finish(parser)
  /\ UNCHANGED <<handler, store, deploy, workload, fetcher>>

ParseNext == ParseChar \/ ParseEnd

ParseSpec == ParseInit /\ [][ParseNext]_vars

\* the document the text was written from, and whether the call has returned
Written == Get(parser.written)
Parsed == parser.pc = "done" /\ ~IsNull(parser.written)

\* C20 as stated: a written document whose data fields all hold a separator, a
\* quote or a line terminator comes back from parseCsv with the same records,
\* the same cells and the same strings.
C20_AsClaimed ==
  (Parsed /\ \A r \in 1..Len(Written.records) :
               \A k \in 1..Len(Written.records[r]) : NeedsQuotes(Written.records[r][k]))
    => parser.result.rows = Written.records

\* C20: parsing a written document gives back its header and, in order and cell
\* by cell with exactly the original strings, those of its data records that
\* have a cell which does not trim to empty; a record whose cells all trim to
\* empty (a lone quoted line terminator, say) is dropped.
C20_RoundTrip ==
  Parsed => /\ parser.result.headers = Written.header
            /\ parser.result.rows = SelectSeq(Written.records, hasContent)

\* a document with a quoted quote and a quoted separator in one record, and a
\* quoted CR LF in the next, has come back whole
C20_Witness ==
  /\ Parsed
  /\ Len(Written.records) = 2
  /\ Written.records[1] = <<<<"a", QUOTE>>>>
  /\ Written.records[2] = <<<<"a", "\r", "\n">>>>
  /\ parser.result.rows = Written.records

\* the text ended inside a quoted field
Unterminated == parser.pc = "done" /\ parser.inQuotes
\* the position in normalized of the quote that opened the field the scan is in
RECURSIVE lastOpening(_, _)
lastOpening(ps, q) ==
  IF ps.i >= Len(ps.normalized) THEN q
  ELSE lastOpening(scanChar(ps), IF ~ps.inQuotes /\ scanChar(ps).inQuotes THEN ps.i + 1 ELSE q)
\* characters with every doubled quote read as one quote
RECURSIVE Collapse(_)
Collapse(chars) ==
  IF Len(chars) < 2 THEN chars
  ELSE IF chars[1] = QUOTE /\ chars[2] = QUOTE
  THEN <<QUOTE>> \o Collapse(SubSeq(chars, 3, Len(chars)))
  ELSE <<chars[1]>> \o Collapse(Tail(chars))
\* the characters read after the opening quote up to the end of the input
AfterOpening ==
  Collapse(SubSeq(parser.normalized, lastOpening(parseCall(parser.text, Null), 0) + 1,
                  Len(parser.normalized)))
LastField == parser.rows[Len(parser.rows)][Len(parser.rows[Len(parser.rows)])]

Blank(line) == \A k \in 1..Len(line) : \A j \in 1..Len(line[k]) : IsWhite(line[k][j])
NotBlank(line) == ~Blank(line)
\* header is cell without the white space at its two ends
TrimmedTo(cell, header) ==
  /\ header = <<>> \/ (~IsWhite(header[1]) /\ ~IsWhite(header[Len(header)]))
  /\ \E a \in 0..Len(cell) :
       /\ Len(cell) >= a + Len(header)
       /\ SubSeq(cell, a + 1, a + Len(header)) = header
       /\ \A j \in (1..a) \cup ((a + Len(header) + 1)..Len(cell)) : IsWhite(cell[j])

\* C22: of the records scanned, those whose every cell trims to empty are
\* discarded wherever they stand; the first record left gives the headers, cell
\* by cell and trimmed; the records left after it are the rows, in their order
\* and with their cells as scanned; when no record is left the headers and the
\* rows are empty.
C22_BlankRecordsDropped ==
  parser.pc = "done" =>
    LET kept == SelectSeq(parser.rows, NotBlank)
    IN  /\ kept = <<>> => parser.result = [headers |-> <<>>, rows |-> <<>>]
        /\ kept # <<>> =>
             /\ Len(parser.result.headers) = Len(kept[1])
             /\ \A k \in 1..Len(kept[1]) : TrimmedTo(kept[1][k], parser.result.headers[k])
             /\ parser.result.rows = Tail(kept)

\* C22 witness: a blank record before the header, a header with a trailing
\* space, a blank record of two cells between it and the data, and a data cell
\* with a leading space
C22_Witness ==
  /\ parser.pc = "done"
  /\ parser.rows = <<<<<<" ">>>>, <<<<"h", " ">>>>, <<<<>>, <<>>>>, <<<<" ", "a">>>>, <<<<"b">>>>>>
  /\ parser.result = [headers |-> <<<<"h">>>>, rows |-> <<<<<<" ", "a">>>>, <<<<"b">>>>>>]

\* the character the scan is at, and the one after it ("" past the end)
CharAt(k) == IF k <= Len(parser.normalized) THEN parser.normalized[k] ELSE ""
\* the step ends the record: the field closes the record, one record is added
EndsRecord ==
  /\ parser'.rows = Append(parser.rows, Append(parser.row, parser.field))
  /\ parser'.row = <<>> /\ parser'.field = <<>> /\ ~parser'.inQuotes
\* the step leaves the records and the fields already pushed as they are
KeepsRecord == parser'.rows = parser.rows /\ parser'.row = parser.row

\* C30: every iteration of the scan does what the two states prescribe.  Outside
\* quotes a comma ends the field, and LF, CR LF and a lone CR each end the
\* record once (CR LF is consumed as one terminator); a quote enters quoting.
\* Inside quotes a doubled quote appends one quote and stays quoted, a single
\* quote leaves quoting, and any other character, a comma or a line terminator
\* included, is appended to the field and ends neither the field nor the record.
C30_TwoStateScan ==
  [][(parser.pc = "scan" /\ parser'.pc = "scan") =>
       LET c == CharAt(parser.i + 1)
           n == CharAt(parser.i + 2)
       IN  IF ~parser.inQuotes
           THEN /\ c = "," => /\ parser'.row = Append(parser.row, parser.field)
                              /\ parser'.field = <<>> /\ parser'.rows = parser.rows
                              /\ ~parser'.inQuotes /\ parser'.i = parser.i + 1
                /\ c = "\n" => EndsRecord /\ parser'.i = parser.i + 1
                /\ (c = "\r" /\ n = "\n") => EndsRecord /\ parser'.i = parser.i + 2
                /\ (c = "\r" /\ n # "\n") => EndsRecord /\ parser'.i = parser.i + 1
                /\ c = QUOTE => /\ parser'.inQuotes /\ KeepsRecord
                                /\ parser'.field = parser.field
                                /\ parser'.i = parser.i + 1
                /\ c \notin {",", "\n", "\r", QUOTE} =>
                     /\ parser'.field = Append(parser.field, c) /\ KeepsRecord
                     /\ ~parser'.inQuotes /\ parser'.i = parser.i + 1
           ELSE /\ (c = QUOTE /\ n = QUOTE) =>
                     /\ parser'.field = Append(parser.field, QUOTE) /\ KeepsRecord
                     /\ parser'.inQuotes /\ parser'.i = parser.i + 2
                /\ (c = QUOTE /\ n # QUOTE) =>
                     /\ parser'.field = parser.field /\ KeepsRecord
                     /\ ~parser'.inQuotes /\ parser'.i = parser.i + 1
                /\ c # QUOTE =>
                     /\ parser'.field = Append(parser.field, c) /\ KeepsRecord
                     /\ parser'.inQuotes /\ parser'.i = parser.i + 1]_vars

\* C30 witness: a text with CR LF after the header, a quoted field holding a
\* comma, a CR LF and a doubled quote, a second field and a lone CR has been
\* scanned into three records
C30_Witness ==
  /\ parser.pc = "done"
  /\ parser.rows = <<<<<<"h">>>>,
                     <<<<"a", ",", "\r", "\n", QUOTE, "b">>, <<"c">>>>,
                     <<<<"d">>>>>>

\* the form the handler has read
FormOf(h) == Get(h.formData)
\* both files are there, have their required column and have data rows
FilesValid(form) ==
  /\ ~IsNull(form.ligand_csv) /\ ~IsNull(form.target_csv)
  /\ IndexOf(lowerHeaders(Get(form.ligand_csv)), STR_SMILES) # -1
  /\ IndexOf(lowerHeaders(Get(form.target_csv)), STR_SEQUENCE) # -1
  /\ Len(ligandsOf(Get(form.ligand_csv))) > 0
  /\ Len(targetsOf(Get(form.target_csv))) > 0
\* the submitted indication_id, trimmed; empty when the field is absent
IndicationOf(form) ==
  IF IsNull(form.indication_id) THEN EmptyStr ELSE Trim(Get(form.indication_id))

\* C23: a submission without indication_id whose files are valid is not rejected
\* with 400, sends no ranking-service request and builds records without an
\* association score; a submission whose indication_id is not in INDICATIONS
\* ends with 400 and none of its records in the store.
C23_IndicationOptional ==
  \A p \in Procs : ~IsNull(handler[p].formData) =>
    LET h == handler[p]
        form == FormOf(h)
    IN  /\ (IndicationOf(form) = EmptyStr /\ FilesValid(form)) =>
             /\ h.response.status # 400
             /\ ~Issued(h, {"fetch"})
             /\ \A k \in 1..Len(h.rowsToInsert) : IsNull(h.rowsToInsert[k].association_score)
        /\ (IndicationOf(form) # EmptyStr /\ ~isValidIndication(IndicationOf(form))) =>
             /\ h.pc = "done" => h.response.status = 400
             /\ RowsOf(p) = {}

\* C24: no step of a submission removes or changes a row of the store: every
\* row of the store is still there, field by field, after the step, and the rows
\* a step adds are records the stepping submission built; a dedup or cache
\* query leaves the store as it is.
C24_AppendOnly ==
  [][/\ store \subseteq store'
     /\ \A r \in store' \ store :
          \E p \in Procs : /\ handler[p].pc = "insert"
                           /\ r \in Range(handler[p].rowsToInsert)
     /\ (\A p \in Procs : handler[p].pc # "insert") => store' = store]_vars

\* C24 witness: a submission has added a done copy of a stored done row, and the
\* stored row is still there
C24_Witness ==
  /\ SeedDone \in store
  /\ \E p \in Procs :
       /\ handler[p].response.status = 200
       /\ \E r \in RowsOf(p) : r.status = "done" /\ r.input_hash = SeedDone.input_hash

\* the scores the ranking service has reported to the submission for target id
FetchedScores(h, id) ==
  {h.pages[n].rows[i].score : <<n, i>> \in {ni \in PagesOf(h, id) \X (1..2) :
                                             ni[2] \in MatchesOf(h, h.pages[ni[1]])}}

\* C25: the records a submission builds all carry the user of its token, the
\* same created_at, the memo of the form and the configured model version, and
\* their ids differ from each other and from every other stored row's; a record
\* with a null target identifier has a null association score, a record's
\* non-null score is a score the store holds or the ranking service reported
\* for its target under the submission's indication, and records that share a
\* target identifier share the score.
C25_RecordFields ==
  /\ \A r1, r2 \in store : r1.id = r2.id => r1 = r2
  /\ \A p \in Procs : InsertBuilt(handler[p]) =>
       LET h == handler[p]
           rows == h.rowsToInsert
       IN  \A k \in 1..Len(rows) :
             /\ ~IsNull(h.userId)
             /\ rows[k].user_id = userOfToken(h.token)
             /\ rows[k].created_at = rows[1].created_at
             /\ rows[k].memo = (IF IsNull(FormOf(h).memo) THEN EmptyStr
                                ELSE Get(FormOf(h).memo))
             /\ rows[k].model_version = deploy.env.modelVersion
             /\ \A j \in 1..Len(rows) : j # k => rows[j].id # rows[k].id
             /\ \A r \in store : r.id = rows[k].id => r = rows[k]
             /\ IsNull(rows[k].target_ensembl_id) => IsNull(rows[k].association_score)
             /\ ~IsNull(rows[k].association_score) =>
                  rows[k].association_score
                    \in StoredScores(h, Get(rows[k].target_ensembl_id))
                          \cup FetchedScores(h, Get(rows[k].target_ensembl_id))
             /\ \A j \in 1..Len(rows) :
                  rows[j].target_ensembl_id = rows[k].target_ensembl_id =>
                    rows[j].association_score = rows[k].association_score

\* C25 witness: a submission has built two records for one target with the score
\* the ranking service reported, and a record without a target identifier
C25_Witness ==
  \E p \in Procs :
    /\ InsertBuilt(handler[p])
    /\ handler[p].memo # EmptyStr
    /\ \E j, k \in 1..Len(handler[p].rowsToInsert) :
         /\ j # k
         /\ handler[p].rowsToInsert[j].target_ensembl_id = Some(STR_ENSG7)
         /\ handler[p].rowsToInsert[k].target_ensembl_id = Some(STR_ENSG7)
         /\ handler[p].rowsToInsert[j].association_score = Some(5)
         /\ handler[p].rowsToInsert[k].association_score = Some(5)
    /\ \E k \in 1..Len(handler[p].rowsToInsert) :
         IsNull(handler[p].rowsToInsert[k].target_ensembl_id)

\* the place of a kind of call in the order of the handler's calls
RankOf(kind) ==
  CASE kind = "getUser" -> 0 [] kind = "lookup" -> 1 [] kind = "dedup" -> 2
    [] kind = "assoc" -> 3 [] kind = "fetch" -> 4 [] kind = "insert" -> 5
\* the calls of a submission go out one at a time and in order: only the last
\* call can be in flight, and it is exactly while the handler awaits it; the
\* kinds follow each other as token check, identifier lookup, dedup queries,
\* association-cache queries, ranking pages, insert; one lookup and one insert
\* at most
OneAtATimeInOrder(h) ==
  /\ \A i \in 1..Len(h.requests) :
       /\ h.requests[i].result = "pending" => (i = Len(h.requests) /\ h.pc = h.requests[i].kind)
       /\ i < Len(h.requests) => RankOf(h.requests[i].kind) <= RankOf(h.requests[i + 1].kind)
  /\ h.pc \notin {"idle", "done"} =>
       (h.requests # <<>> /\ h.requests[Len(h.requests)].result = "pending")
  /\ Cardinality(RequestsFor(h, "lookup")) <= 1
  /\ Cardinality(RequestsFor(h, "insert")) <= 1

\* C26 as stated: the calls go out one at a time and in order, and a call other
\* than the insert that fails or times out does not abort the submission.
C26_AsClaimed ==
  \A p \in Procs :
    /\ OneAtATimeInOrder(handler[p])
    /\ \A i \in 1..Len(handler[p].requests) :
         (/\ handler[p].requests[i].kind \in {"lookup", "dedup", "assoc", "fetch"}
          /\ handler[p].requests[i].result = "error")
           => handler[p].response.status # 500

\* C26: the calls go out one at a time and in order; an identifier lookup or a
\* ranking page that fails or times out is followed by the rest of the
\* submission, whereas a dedup or association-cache query that fails is the last
\* call of the submission, which ends with 500.
C26_SequentialCalls ==
  \A p \in Procs :
    LET h == handler[p] IN
    /\ OneAtATimeInOrder(h)
    /\ \A i \in 1..Len(h.requests) :
         h.requests[i].result = "error" =>
           /\ h.requests[i].kind \in {"lookup", "fetch"} =>
                /\ i < Len(h.requests)
                /\ h.response.status = 500 => StoreFailure(h)
           /\ h.requests[i].kind \in {"dedup", "assoc", "insert"} =>
                /\ i = Len(h.requests)
                /\ h.response.status = 500

\* C26 witness: a submission has sent a lookup, a dedup query, a cache query, two
\* ranking pages and the insert, the lookup and a page have failed, and it has
\* answered 200
C26_Witness ==
  \E p \in Procs :
    LET h == handler[p] IN
    /\ h.response.status = 200
    /\ \A kind \in {"lookup", "dedup", "assoc", "fetch", "insert"} : RequestsFor(h, kind) # {}
    /\ Cardinality(RequestsFor(h, "fetch")) >= 2
    /\ \E i \in RequestsFor(h, "lookup") : h.requests[i].result = "error"
    /\ \E i \in RequestsFor(h, "fetch") : h.requests[i].result = "error"

\* C27: once the caller has aborted the request, the submission sends no insert
\* and adds no row to the store.
C27_AbortPersistsNothing ==
  [][\A p \in Procs : handler[p].aborted =>
       /\ handler'[p].pc = "insert" => handler[p].pc = "insert"
       /\ \A r \in store' \ store : r.id[1] # p]_vars

\* the pages the ranking service has answered for target id, in order
PageSeqOf(h, id) ==
  LET isOfId(page) == page.ensemblId = id IN SelectSeq(h.pages, isOfId)
\* fetchAssociationScore run from index 0 and total 0 on the answers seq alone,
\* from answer k on: how it ends, with which score, after how many answers
RECURSIVE Replay(_, _, _, _, _)
Replay(indicationId, seq, k, index, total) ==
  LET out == pageOutcome([index |-> index, total |-> total, indicationId |-> indicationId],
                         [kind |-> IF seq[k].ok THEN "ok" ELSE "throw",
                          rows |-> seq[k].rows, count |-> seq[k].count])
  IN  IF out.kind = "next" /\ k < Len(seq)
      THEN Replay(indicationId, seq, k + 1, index + 1, out.total)
      ELSE [kind |-> out.kind, score |-> out.score, read |-> k]

\* C28: the score a submission keeps for a target identifier it has fetched is
\* the result of fetchAssociationScore on the ranking service's answers for that
\* identifier alone, starting from page 0 and total 0, and the pages asked for
\* it are exactly the pages that run asks: nothing of it depends on which other
\* identifiers were fetched before it, so any order of the identifiers gives
\* every record the same score.
C28_OrderIndependent ==
  \A p \in Procs :
    LET h == handler[p] IN
    \A id \in {h.pages[n].ensemblId : n \in 1..Len(h.pages)} :
      LET seq == PageSeqOf(h, id)
          key == associationKey(h.indicationId, id)
          run == Replay(h.indicationId, seq, 1, 0, 0)
      IN  /\ \A k \in 1..Len(seq) : seq[k].index = k - 1
          /\ run.read = Len(seq)
          /\ key \in DOMAIN h.associationByKey =>
               /\ run.kind # "next"
               /\ h.associationByKey[key] = run.score
               /\ InsertBuilt(h) =>
                    \A k \in 1..Len(h.rowsToInsert) :
                      h.rowsToInsert[k].target_ensembl_id = Some(id) =>
                        h.rowsToInsert[k].association_score = run.score

\* C28 witness: a submission has fetched two target identifiers, the first over
\* two pages with a reported total, the second in one page, with different
\* scores
C28_Witness ==
  \E p \in Procs :
    LET h == handler[p] IN
    /\ InsertBuilt(h)
    /\ Len(h.pages) = 3
    /\ h.pages[1].ensemblId = h.pages[2].ensemblId
    /\ h.pages[3].ensemblId # h.pages[1].ensemblId
    /\ h.pages[1].count = Some(OPENTARGETS_PAGE_SIZE + 1)
    /\ IsNull(h.pages[3].count)
    /\ h.associationByKey[associationKey(h.indicationId, h.pages[1].ensemblId)]
         # h.associationByKey[associationKey(h.indicationId, h.pages[3].ensemblId)]

\* C29: a pair with a warning gets a failed record with null affinity values and
\* its own warnings, never done and never previous_result_available, also when
\* the store holds a done row with its hash; no dedup query carries its hash,
\* unless a pair without warning has the same hash.
C29_WarnedNeverDone ==
  \A p \in Procs :
    LET h == handler[p] IN
    \A k \in 1..Len(h.pairs) : h.pairs[k].warnings # <<>> =>
      /\ \A i \in RequestsFor(h, "dedup") :
           (/\ ~IsNull(h.pairs[k].input_hash)
            /\ Get(h.pairs[k].input_hash) \in Range(h.requests[i].arg))
             => \E j \in 1..Len(h.pairs) : /\ h.pairs[j].warnings = <<>>
                                           /\ h.pairs[j].input_hash = h.pairs[k].input_hash
      /\ InsertBuilt(h) =>
           /\ h.rowsToInsert[k].status = "failed"
           /\ IsNull(h.rowsToInsert[k].affinity_value)
           /\ IsNull(h.rowsToInsert[k].affinity_prob)
           /\ h.rowsToInsert[k].warnings = Some(h.pairs[k].warnings)
           /\ ~HasWarning(h.pairs[k], WARNING_PREVIOUS_RESULT)
           /\ \A r \in RowsOf(p) : r.id = <<p, k>> => r.status = "failed"

\* C29 witness: a pair flagged sequence_too_long, whose hash a stored done row
\* has, has been stored as failed by a submission that also sent a dedup query
C29_Witness ==
  \E p \in Procs :
    LET h == handler[p] IN
    /\ h.response.status = 200
    /\ RequestsFor(h, "dedup") # {}
    /\ \E k \in 1..Len(h.pairs) :
         /\ h.pairs[k].warnings = <<WARNING_SEQUENCE_TOO_LONG>>
         /\ StoredDone(h.pairs[k]) # {}
         /\ \E r \in RowsOf(p) : r.id = <<p, k>> /\ r.status = "failed"
                                  /\ r.input_hash = SeedLong.input_hash

\* the last character of the text, "" for the empty text
LastChar == IF parser.normalized = <<>> THEN "" ELSE parser.normalized[Len(parser.normalized)]

\* C31: when the loop has ended, the pending record is added to the records iff
\* the current field is not empty or a field was already pushed for it.  So a
\* text that ends in a line terminator outside quotes gets no record more, a
\* last line without terminator is kept, and a text that ends in a comma
\* outside quotes gets a last record that ends in an empty cell.
C31_EndFlush ==
  [][(parser.pc = "scan" /\ parser'.pc = "done") =>
       /\ (parser.field # <<>> \/ parser.row # <<>>) =>
            parser'.rows = Append(parser.rows, Append(parser.row, parser.field))
       /\ (parser.field = <<>> /\ parser.row = <<>>) => parser'.rows = parser.rows
       /\ (~parser.inQuotes /\ LastChar \in {"\n", "\r"}) => parser'.rows = parser.rows
       /\ (~parser.inQuotes /\ LastChar \notin {"\n", "\r", QUOTE, ""}) =>
            /\ Len(parser'.rows) = Len(parser.rows) + 1
            /\ LET last == parser'.rows[Len(parser'.rows)]
               IN  LastChar = "," => last[Len(last)] = <<>>]_vars

\* C31 witness: a text whose last line is a cell and a comma, without a line
\* terminator, has been parsed into a header and a record of two cells
C31_Witness ==
  /\ parser.pc = "done"
  /\ parser.normalized = <<"a", "\n", "a", ",">>
  /\ parser.rows = <<<<<<"a">>>>, <<<<"a">>, <<>>>>>>
  /\ parser.result.rows = <<<<<<"a">>, <<>>>>>>

\* the number of pages of OPENTARGETS_PAGE_SIZE rows that hold total rows
PagesFor(total) == (total + OPENTARGETS_PAGE_SIZE - 1) \div OPENTARGETS_PAGE_SIZE
\* the total fetchAssociationScore holds after answer k of seq: the count of the
\* latest answer that had one, 0 when none had
KnownTotal(seq, k) ==
  LET counted == {j \in 1..k : ~IsNull(seq[j].count)}
  IN  IF counted = {} THEN 0
      ELSE Get(seq[CHOOSE j \in counted : \A i \in counted : i <= j].count)
\* answer k of seq is a page without a row of the indication
NoMatch(h, seq, k) == seq[k].ok /\ MatchesOf(h, seq[k]) = {}
\* the fetch of target id has ended with answer k of seq
LastPage(h, id, seq, k) ==
  /\ Len(seq) = k
  /\ associationKey(h.indicationId, id) \in DOMAIN h.associationByKey
  /\ IsNull(h.associationByKey[associationKey(h.indicationId, id)])
  /\ Cardinality(FetchesOf(h, id)) = k

\* C32: the pages of a target are asked in the order 0, 1, 2, ..., each once.
\* A page without a row of the indication ends the fetch with null iff it is
\* empty or the pages read so far reach the total known (the count of the latest
\* answer that had one, 0 at first).  So with non-empty pages and a constant
\* total T the fetch ends after max(1, ceil(T/50)) requests, and a first answer
\* without count ends it after one.
C32_PageCount ==
  \A p \in Procs :
    LET h == handler[p] IN
    \A id \in {h.pages[n].ensemblId : n \in 1..Len(h.pages)} :
      LET seq == PageSeqOf(h, id) IN
      /\ \A k \in 1..Len(seq) : seq[k].index = k - 1
      /\ \A i, j \in FetchesOf(h, id) :
           i < j => h.requests[i].arg.index < h.requests[j].arg.index
      /\ \A k \in 1..Len(seq) : NoMatch(h, seq, k) =>
           (LastPage(h, id, seq, k)
              <=> (seq[k].rows = <<>> \/ k * OPENTARGETS_PAGE_SIZE >= KnownTotal(seq, k)))
      /\ \A k \in 1..Len(seq) : \A T \in {Get(c) : c \in {seq[1].count} \ {Null}} :
           (\A j \in 1..k : NoMatch(h, seq, j) /\ seq[j].rows # <<>> /\ seq[j].count = Some(T))
             => /\ k <= IF PagesFor(T) > 1 THEN PagesFor(T) ELSE 1
                /\ LastPage(h, id, seq, k) <=> k = (IF PagesFor(T) > 1 THEN PagesFor(T) ELSE 1)
      /\ (NoMatch(h, seq, 1) /\ IsNull(seq[1].count)) => LastPage(h, id, seq, 1)

\* C32 witness: a fetch has ended with null after two non-empty pages without the
\* indication that both reported a total of 51
C32_Witness ==
  \E p \in Procs :
    LET h == handler[p] IN
    \E id \in {h.pages[n].ensemblId : n \in 1..Len(h.pages)} :
      LET seq == PageSeqOf(h, id) IN
      /\ LastPage(h, id, seq, 2)
      /\ \A j \in 1..2 : /\ NoMatch(h, seq, j) /\ seq[j].rows # <<>>
                         /\ seq[j].count = Some(OPENTARGETS_PAGE_SIZE + 1)

\* the lookup of the submission was answered ok and had asked for symbol g
LookupAnswered(h, g) ==
  \E i \in RequestsFor(h, "lookup") :
    h.requests[i].result = "ok" /\ g \in Range(h.requests[i].arg)

\* C33: in the enrichment handler, when the identifiers are resolved, a target
\* with an empty gene name has a null identifier; one whose gene name has the
\* canonical form has its normalized form, whatever the lookup answered; any
\* other target has an identifier only if the lookup was answered ok, had asked
\* for its symbol, and the answer held a non-empty id for it, which is the
\* identifier; targets of the same gene symbol have the same identifier.  The
\* map resolveEnsemblIds returns has keys among the trimmed symbols only.
C33_ResolvedSymbols ==
  \A p \in Procs :
    LET h == handler[p] IN
    /\ (deploy.route = "enrich" /\ AfterPairLoop(h)) =>
         \A t \in 1..Len(h.targets) :
           LET g == Trim(h.targets[t].geneName)
               id == h.targets[t].targetEnsemblId
           IN  /\ g = EmptyStr => IsNull(id)
               /\ ~IsNull(normalizeEnsemblId(g)) => id = normalizeEnsemblId(g)
               /\ (g # EmptyStr /\ IsNull(normalizeEnsemblId(g)) /\ ~IsNull(id)) =>
                    /\ LookupAnswered(h, g)
                    /\ id = lookupTable(g)
                    /\ Get(id) # EmptyStr
               /\ \A u \in 1..Len(h.targets) :
                    Trim(h.targets[u].geneName) = g => h.targets[u].targetEnsemblId = id
    /\ h.pc = "lookup" =>
         \A reply \in LookupReplies(h.pending) :
           LET resolved == resolvedOf(uniqueGeneSymbolsOf(h.targets), reply.payload) IN
           /\ DOMAIN resolved
                \subseteq {Trim(h.targets[t].geneName) : t \in 1..Len(h.targets)}
           /\ \A s \in DOMAIN resolved : resolved[s] # EmptyStr

\* C33 witness: the lookup was asked two symbols and answered ok; the target of
\* the symbol it knows has the identifier, the target of the other has none
C33_Witness ==
  \E p \in Procs :
    LET h == handler[p] IN
    /\ AfterPairLoop(h)
    /\ Len(h.targets) = 2
    /\ LookupAnswered(h, STR_TP53) /\ LookupAnswered(h, STR_XY)
    /\ Trim(h.targets[1].geneName) = STR_TP53
    /\ h.targets[1].targetEnsemblId = Some(STR_ENSG7)
    /\ Trim(h.targets[2].geneName) = STR_XY
    /\ IsNull(h.targets[2].targetEnsemblId)

\* the data rows of a file that have no cell at the index of the column named
ShortRows(doc, column) ==
  {i \in 1..Len(doc.rows) : Len(doc.rows[i]) <= IndexOf(lowerHeaders(doc), column)}
\* both files are there and have their required column
HeadersValid(form) ==
  /\ ~IsNull(form.ligand_csv) /\ ~IsNull(form.target_csv)
  /\ IndexOf(lowerHeaders(Get(form.ligand_csv)), STR_SMILES) # -1
  /\ IndexOf(lowerHeaders(Get(form.target_csv)), STR_SEQUENCE) # -1
\* pair k of the submission has warning w, no hash, and a failed record
FailedFor(p, k, w) ==
  LET h == handler[p] IN
  /\ HasWarning(h.pairs[k], w)
  /\ IsNull(h.pairs[k].input_hash)
  /\ InsertBuilt(h) =>
       /\ h.rowsToInsert[k].status = "failed"
       /\ IsNull(h.rowsToInsert[k].input_hash)
       /\ h.response.status = 200 => h.rowsToInsert[k] \in store

\* C34: the number of cells of a data row is not checked.  A submission whose
\* files have their required columns is answered 400 for its files only when a
\* file has no data row, and then with the empty-data error; a row without a
\* cell at the required column is read with an empty smiles (sequence), every
\* pair of it has invalid_smiles (sequence_missing), no hash and a failed
\* record, which a 200 has stored.
C34_ShortRows ==
  \A p \in Procs : ~IsNull(handler[p].formData) =>
    LET h == handler[p]
        form == FormOf(h)
    IN  HeadersValid(form) =>
          LET ligandCsv == Get(form.ligand_csv)
              targetCsv == Get(form.target_csv)
              nT == Len(targetCsv.rows)
          IN  /\ h.response.error \notin {"files", "headers"}
              /\ h.response.error = "empty" =>
                   (h.response.status = 400 /\ (Len(ligandCsv.rows) = 0 \/ nT = 0))
              /\ (h.pc = "done" /\ (Len(ligandCsv.rows) = 0 \/ nT = 0)) =>
                   (h.response.status = 400 /\ h.response.error \in {"empty", "indication"})
              /\ AfterPairLoop(h) =>
                   /\ Len(h.pairs) = Len(ligandCsv.rows) * nT
                   /\ \A i \in ShortRows(ligandCsv, STR_SMILES) :
                        /\ h.ligands[i].smiles = EmptyStr
                        /\ \A j \in 1..nT :
                             FailedFor(p, (i - 1) * nT + j, WARNING_INVALID_SMILES)
                   /\ \A j \in ShortRows(targetCsv, STR_SEQUENCE) :
                        /\ h.targets[j].sequence = EmptyStr
                        /\ \A i \in 1..Len(ligandCsv.rows) :
                             FailedFor(p, (i - 1) * nT + j, WARNING_SEQUENCE_MISSING)

\* C34 witness: a submission with a ligand row and a target row of one cell, too
\* short for the required column, was answered 200; its four records are stored,
\* three of them failed
C34_Witness ==
  \E p \in Procs :
    LET h == handler[p] IN
    /\ ~IsNull(h.formData)
    /\ HeadersValid(FormOf(h))
    /\ ShortRows(Get(FormOf(h).ligand_csv), STR_SMILES) = {1}
    /\ ShortRows(Get(FormOf(h).target_csv), STR_SEQUENCE) = {1}
    /\ h.response.status = 200
    /\ Cardinality(RowsOf(p)) = 4
    /\ Cardinality({r \in RowsOf(p) : r.status = "failed"}) = 3

\* the rows the store held before any submission
Seeds == {r \in store : r.id[1] = 0}
\* a done row from before the submissions with hash x and the affinity values of d
SeedResult(x, d) ==
  \E r0 \in Seeds :
    /\ r0.status = "done" /\ r0.input_hash = Some(x)
    /\ r0.affinity_value = d.affinity_value /\ r0.affinity_prob = d.affinity_prob

\* C35: a done record is a copy of a result the store held when the dedup query
\* was answered: every entry of doneByHash is a done row of the store, with its
\* hash and affinity values; a built record that is done has the hash and the
\* affinity values of such an entry; a done row that a submission has stored has
\* the hash and the affinity values of a done row from before the submissions.
\* With no done row before the submissions there is never a done row.
C35_DoneOnlyCopied ==
  /\ \A p \in Procs :
       LET h == handler[p] IN
       /\ \A x \in DOMAIN h.doneByHash :
            \E r0 \in store :
              /\ r0.status = "done" /\ r0.input_hash = Some(x)
              /\ r0.affinity_value = h.doneByHash[x].affinity_value
              /\ r0.affinity_prob = h.doneByHash[x].affinity_prob
       /\ \A k \in 1..Len(h.rowsToInsert) :
            LET row == h.rowsToInsert[k] IN
            row.status = "done" =>
              /\ ~IsNull(row.input_hash)
              /\ Get(row.input_hash) \in DOMAIN h.doneByHash
              /\ row.affinity_value = h.doneByHash[Get(row.input_hash)].affinity_value
              /\ row.affinity_prob = h.doneByHash[Get(row.input_hash)].affinity_prob
              /\ row \notin store => SeedResult(Get(row.input_hash), row)
  /\ \A r \in store \ Seeds :
       r.status = "done" => (~IsNull(r.input_hash) /\ SeedResult(Get(r.input_hash), r))
  /\ (\A r0 \in Seeds : r0.status # "done") => (\A r \in store : r.status # "done")

\* C35 witness: a submission has stored a done record with the hash and the
\* affinity values of the done row the store held before it
C35_Witness ==
  /\ SeedDone \in Seeds
  /\ \E r \in store \ Seeds :
       /\ r.status = "done" /\ r.input_hash = SeedDone.input_hash
       /\ r.affinity_value = SeedDone.affinity_value
       /\ r.affinity_prob = SeedDone.affinity_prob
       /\ ~IsNull(r.affinity_value)

\* C36: a candidate and a stored row whose smiles or sequence differ have
\* different hashes, under the same or another model version, and a built record
\* that is done has the smiles, the sequence and the model version of every done
\* row of the store that has its hash.
C36_NoCrossAttribution ==
  \A p \in Procs :
    LET h == handler[p] IN
    /\ \A k \in 1..Len(h.pairs) : \A r0 \in store :
         (/\ ~IsNull(h.pairs[k].input_hash)
          /\ (r0.smiles # h.pairs[k].smiles \/ r0.sequence # h.pairs[k].sequence))
           => r0.input_hash # h.pairs[k].input_hash
    /\ \A k \in 1..Len(h.rowsToInsert) : \A r0 \in Seeds :
         (/\ h.rowsToInsert[k].status = "done"
          /\ r0.status = "done"
          /\ r0.input_hash = h.rowsToInsert[k].input_hash)
           => /\ r0.smiles = h.rowsToInsert[k].smiles
              /\ r0.sequence = h.rowsToInsert[k].sequence
              /\ r0.model_version = h.rowsToInsert[k].model_version

\* the records the handler without enrichment builds for the form of h, the
\* dedup queries answered as they were for h
PlainRows(h) ==
  rowsToInsertOf([h EXCEPT !.pairs = generatePairs(h.ligands,
                                                   targetsOf(Get(FormOf(h).target_csv)),
                                                   h.modelVersion),
                           !.indicationId = EmptyStr,
                           !.associationByKey = <<>>],
                 "plain")
\* the response of the handler without enrichment to the form of h, the calls
\* both handlers make ending as they did for h, and the insert succeeding if h
\* has not sent it
PlainResponse(h) ==
  LET read == readForm([IdleHandler(h.self) EXCEPT !.userId = h.userId], "plain", FormOf(h))
      failed(kind) == \E i \in RequestsFor(h, kind) : h.requests[i].result = "error"
  IN  IF ~FilesValid(FormOf(h)) THEN [status |-> read.response.status,
                                summary |-> read.response.summary]
      ELSE IF failed("dedup") \/ failed("insert") THEN [status |-> 500, summary |-> Null]
      ELSE [status |-> 200, summary |-> Some(summaryOf(PlainRows(h)))]
\* a record without its enrichment fields
SharedFields(row) ==
  [row EXCEPT !.indication_id = Null, !.target_ensembl_id = Null,
              !.association_score = Null]
\* the enrichment handler has answered a form with an indication of INDICATIONS
EnrichAnswered(h) ==
  /\ deploy.route = "enrich"
  /\ ~IsNull(h.formData)
  /\ isValidIndication(IndicationOf(FormOf(h)))
  /\ h.pc = "done"
\* the records h has built are those of the handler without enrichment, but for
\* the enrichment fields
SameRecords(h) ==
  InsertBuilt(h) =>
    LET plain == PlainRows(h) IN
    /\ [k \in 1..Len(h.rowsToInsert) |-> SharedFields(h.rowsToInsert[k])] = plain
    /\ \A k \in 1..Len(plain) :
         /\ IsNull(plain[k].indication_id)
         /\ IsNull(plain[k].target_ensembl_id)
         /\ IsNull(plain[k].association_score)

\* C37, as claimed: for a form with a valid indication the enrichment handler
\* answers with the status and the summary of the handler without enrichment,
\* and builds its records but for the enrichment fields.
C37_AsClaimed ==
  \A p \in Procs :
    LET h == handler[p] IN
    EnrichAnswered(h) =>
      LET plain == PlainResponse(h) IN
      /\ h.response.status = plain.status
      /\ h.response.summary = plain.summary
      /\ SameRecords(h)

\* C37: the same, unless the association cache query of the enrichment handler
\* has failed: then the enrichment handler answers 500 and stores nothing,
\* where the handler without enrichment has no such query and goes on to the
\* insert.
C37_SharedPipeline ==
  \A p \in Procs :
    LET h == handler[p] IN
    EnrichAnswered(h) =>
      LET plain == PlainResponse(h) IN
      IF h.response.error = "association"
      THEN /\ h.response.status = 500 /\ IsNull(h.response.summary)
           /\ RowsOf(p) = {}
           /\ plain.status = 200
      ELSE /\ h.response.status = plain.status
           /\ h.response.summary = plain.summary
           /\ SameRecords(h)

\* C37 witness: the enrichment handler has answered 200 with a done record and
\* a queued record that has a target identifier and an association score
C37_Witness ==
  \E p \in Procs :
    LET h == handler[p] IN
    /\ EnrichAnswered(h)
    /\ h.response.status = 200
    /\ \E k \in 1..Len(h.rowsToInsert) : h.rowsToInsert[k].status = "done"
    /\ \E k \in 1..Len(h.rowsToInsert) :
         /\ h.rowsToInsert[k].status = "queued"
         /\ ~IsNull(h.rowsToInsert[k].target_ensembl_id)
         /\ ~IsNull(h.rowsToInsert[k].association_score)

\* ------------------------------ one page request under fetchWithTimeout
\* fetchAssociationScore run on its own against a ranking service that may stall.
\* fetcher.pc = "page": the fetch of fetchWithTimeout is awaited and its timer is
\* armed; fetcher.pc = "body": the fetch has settled with an ok response, the
\* finally block has cleared the timer, and response.json() is awaited.

\* the fetch settles before the timer fires: it rejects, or it resolves with a
\* response that is not ok (fetchAssociationScore throws) or that is ok (the
\* body is read next); the timer is cleared
PageSettles ==
  /\ fetcher.pc = "page"
  /\ \E outcome \in {"reject", "nonok", "ok"} :
       fetcher' = [fetcher EXCEPT !.pc = IF outcome = "ok" THEN "body" ELSE "threw"]
  /\ UNCHANGED <<handler, store, deploy, workload, parser>>

\* the timer fires while the fetch is awaited: controller.abort() rejects it
PageTimeout ==
  /\ fetcher.pc = "page"
  /\ fetcher' = [fetcher EXCEPT !.pc = "threw"]
  /\ UNCHANGED <<handler, store, deploy, workload, parser>>

\* the body arrives and is decoded: the loop goes on as after any ok reply
PageBody ==
  /\ fetcher.pc = "body"
  /\ \E reply \in {r \in FetcherReplies : r.kind = "ok"} :
       LET next == fetcherReplied([fetcher EXCEPT !.pc = "page"], reply)
       IN  fetcher' = next
  /\ UNCHANGED <<handler, store, deploy, workload, parser>>

\* reading or decoding the body fails: response.json() rejects
PageBodyFails ==
  /\ fetcher.pc = "body"
  /\ fetcher' = [fetcher EXCEPT !.pc = "threw"]
  /\ UNCHANGED <<handler, store, deploy, workload, parser>>

StallNext == FetchCall \/ PageSettles \/ PageTimeout \/ PageBody \/ PageBodyFails

\* the function runs when it can and an armed timer fires unless it is cleared;
\* nothing makes the ranking service answer
StallSpec ==
  FetchInit /\ [][StallNext]_vars /\ WF_vars(FetchCall) /\ WF_vars(PageTimeout)

\* C38: no enrichment call waits on the remote server alone: as long as
\* fetchAssociationScore has not ended, a step that does not need the server is
\* possible, the function's own or the firing of the armed timer.
C38_NoStall ==
  \/ fetcher.pc \in {"returned", "threw"}
  \/ ENABLED FetchCall
  \/ ENABLED PageTimeout
====
